---- MODULE Spec2Model ----
(***************************************************************************)
(* FormAI squat analyser: the geometry kernel, the pose validity gate, the *)
(* SquatDetector phase machine, the basic and the advanced form scorer and *)
(* the reference motion model.                                             *)
(*                                                                         *)
(* Number representation (the source computes in IEEE doubles; the model   *)
(* computes in exact fixed point):                                         *)
(*   coordinates x, y       1 unit = 0.001 of the normalised image         *)
(*   visibility             1 unit = 0.001                                 *)
(*   angles                 1 unit = 0.001 degree                          *)
(*   an average of two      kept as the SUM of the two (suffix 2), so that *)
(*                          (a + b) / 2 < t is compared as a + b < 2 * t   *)
(*   hip heights in the     kept as LEFT_HIP.y + RIGHT_HIP.y, that is in   *)
(*   detector state         units of 0.0005                                *)
(*   progress               1 unit = 0.01                                  *)
(***************************************************************************)
EXTENDS Integers, Sequences, FiniteSets, TLC

VARIABLES
    phase,              \* SquatDetector.phase
    repCount,           \* SquatDetector.repCount
    lowestHipHeight,    \* SquatDetector.lowestHipHeight   (units of 0.0005)
    highestHipHeight,   \* SquatDetector.highestHipHeight  (units of 0.0005)
    phaseFrameCount,    \* SquatDetector.phaseFrameCount
    startTime,          \* SquatDetector.startTime
    formScores,         \* SquatDetector.formScores
    repStartTime,       \* SquatDetector.repStartTime
    now,                \* the value Date.now() returns
    ret,                \* what the last detectPhase call returned
    last,               \* the last reset or detectPhase call and whether its frame passed the gate
    callsInPhase,       \* valid frames fed since the last reset or phase change
    allCross,           \* every one of those frames met the phase's conditions
    crossRun,           \* the latest valid frames of the phase that met its knee threshold, in a row (SpecBoundary)
    phaseTrace,         \* the phases detectPhase reported, repeats collapsed
    script,             \* the scripted scenario being played, if any
    inPose,             \* the pose handed to the scorers
    keyframe,           \* the target keyframe handed to the advanced scorer
    source,             \* where inPose came from: "camera" or "synth"
    gate,               \* result of the last isPoseValid call
    form,               \* result of the last analyzeForm call
    coach,              \* result of the last analyzeFormAgainstCoach call
    sessionScores,      \* the form scores collected for calculateMovementQuality
    sessionDurations,   \* the rep durations (ms) collected for calculateMovementQuality
    quality,            \* result of the last calculateMovementQuality call
    queue,              \* VoiceFeedbackQueue.queue
    isSpeaking,         \* VoiceFeedbackQueue.isSpeaking
    lastSpokenMessages, \* VoiceFeedbackQueue.lastSpokenMessages (0: no entry)
    inFlight,           \* messages whose generateSpeech promise is pending
    spoke,              \* the last speech started and the time since the same text started before
    lastAdd,            \* the last addFeedback call and what it did
    geometry,           \* the last call of a geometry-kernel function and its outcome
    twin,               \* a newly constructed detector fed the frames fed since reset() (SpecReset)
    motion              \* the last call of calculateSquatProgress and its result (SpecMotion)

detVars == <<phase, repCount, lowestHipHeight, highestHipHeight,
             phaseFrameCount, startTime, formScores, repStartTime>>
histVars == <<callsInPhase, allCross, crossRun, phaseTrace>>
sessionVars == <<sessionScores, sessionDurations, quality>>
voiceVars == <<queue, isSpeaking, lastSpokenMessages, inFlight, spoke, lastAdd>>
scoreVars == <<inPose, keyframe, source, gate, form, coach, sessionVars, voiceVars, geometry, twin, motion>>
vars == <<detVars, now, ret, last, histVars, script, scoreVars>>

(***************************************************************************)
(* Bounds of the model.                                                    *)
(***************************************************************************)
MaxReps == 2            \* detectPhase is fed while repCount < MaxReps
MaxFrameCount == 10     \* valid frames are fed while phaseFrameCount < MaxFrameCount
MaxTime == 2            \* the clock starts at 1 and advances while now < MaxTime
MaxScores == 1          \* addFormScore is called while Len(formScores) < MaxScores
MaxHold == 10           \* a scripted stage is held for 9 .. MaxHold frames

(***************************************************************************)
(* Program constants.                                                      *)
(***************************************************************************)
STANDING_KNEE_THRESHOLD == 170
BOTTOM_KNEE_THRESHOLD == 90
MIN_DESCENT_DISTANCE == 150     \* 0.15
DEBOUNCE_FRAMES == 8
MIN_VISIBILITY == 700           \* 0.7
NoVisibility == -1              \* Landmark.visibility left undefined

Deg(d) == 1000 * d

Abs(n) == IF n < 0 THEN -n ELSE n
Max(a, b) == IF a >= b THEN a ELSE b
Min(a, b) == IF a <= b THEN a ELSE b
\* n / d rounded to the nearest integer, d > 0
RoundDiv(n, d) == IF n >= 0 THEN (2 * n + d) \div (2 * d)
                  ELSE -((2 * (-n) + d) \div (2 * d))

(***************************************************************************)
(* Landmarks and poses.  A pose carries the eight joints the analysers     *)
(* read; a joint the pose source did not deliver is absent.                *)
(***************************************************************************)
Absent == [present |-> FALSE, x |-> 0, y |-> 0, visibility |-> NoVisibility]
createLandmark(x, y) == [present |-> TRUE, x |-> x, y |-> y, visibility |-> 1000]
Joints == {"LEFT_HIP", "RIGHT_HIP", "LEFT_KNEE", "RIGHT_KNEE",
           "LEFT_ANKLE", "RIGHT_ANKLE", "LEFT_SHOULDER", "RIGHT_SHOULDER"}

(***************************************************************************)
(* Math.atan2 in thousandths of a degree.  AtanTable[i + 1] is             *)
(* atan(i / 128); values between two entries are interpolated linearly     *)
(* (error below 0.001 degree).  atan2(0, 0) is 0.                          *)
(***************************************************************************)
AtanTable == <<
    0, 448, 895, 1343, 1790, 2237, 2684, 3130, 3576, 4022, 4467, 4912, 5356,
    5799, 6242, 6684, 7125, 7565, 8005, 8443, 8881, 9317, 9752, 10187, 10620,
    11051, 11482, 11911, 12339, 12766, 13191, 13614, 14036, 14457, 14876,
    15293, 15709, 16123, 16535, 16945, 17354, 17761, 18166, 18569, 18970,
    19370, 19767, 20163, 20556, 20947, 21337, 21724, 22109, 22493, 22874,
    23253, 23629, 24004, 24376, 24747, 25115, 25481, 25844, 26206, 26565,
    26922, 27277, 27629, 27979, 28327, 28673, 29017, 29358, 29697, 30033,
    30368, 30700, 31030, 31357, 31682, 32005, 32326, 32645, 32961, 33275,
    33587, 33896, 34203, 34509, 34811, 35112, 35410, 35707, 36001, 36293,
    36582, 36870, 37155, 37439, 37720, 37999, 38276, 38550, 38823, 39094,
    39362, 39629, 39894, 40156, 40416, 40675, 40931, 41186, 41438, 41689,
    41938, 42184, 42429, 42672, 42913, 43152, 43390, 43625, 43859, 44091,
    44321, 44549, 44775, 45000 >>

\* atan(n / d) for 0 <= n <= d, d > 0
AtanRatio(n, d) ==
    LET i == (n * 128) \div d
        f == (n * 128) % d
    IN  IF i >= 128 THEN AtanTable[129]
        ELSE AtanTable[i + 1] + RoundDiv((AtanTable[i + 2] - AtanTable[i + 1]) * f, d)

\* atan2 of a vector of the first quadrant, y >= 0, x >= 0
AtanQuadrant(y, x) ==
    IF x = 0 /\ y = 0 THEN 0
    ELSE IF y <= x THEN AtanRatio(y, x)
    ELSE 90000 - AtanRatio(x, y)

atan2(y, x) ==
    LET q == AtanQuadrant(Abs(y), Abs(x))
        a == IF x >= 0 THEN q ELSE 180000 - q
    IN  IF y < 0 THEN -a ELSE a

(***************************************************************************)
(* Geometry kernel.                                                        *)
(***************************************************************************)
calculateAngleUnfolded(a, b, c) ==
    IF ~a.present \/ ~b.present \/ ~c.present THEN 0
    ELSE Abs(atan2(c.y - b.y, c.x - b.x) - atan2(a.y - b.y, a.x - b.x))

calculateAngle(a, b, c) ==
    IF ~a.present \/ ~b.present \/ ~c.present THEN 0
    ELSE LET radians == atan2(c.y - b.y, c.x - b.x) - atan2(a.y - b.y, a.x - b.x)
             angle == Abs(radians)
         IN  IF angle > 180000 THEN 360000 - angle ELSE angle

calculateKneeAngle(hip, knee, ankle) == calculateAngle(hip, knee, ankle)

calculateHipAngle(shoulder, hip, knee) == calculateAngle(shoulder, hip, knee)

\* reads shoulder.y and hip.y without a presence test
calculateTorsoAngle(shoulder, hip) ==
    LET deltaY == hip.y - shoulder.y
        deltaX == hip.x - shoulder.x
        angleDeg == atan2(deltaY, deltaX)
    IN  Abs(90000 - Abs(angleDeg))

\* kneeWidth < ankleWidth * 0.9
checkKneeCaveIn(leftKnee, rightKnee, leftAnkle, rightAnkle) ==
    LET kneeWidth == Abs(leftKnee.x - rightKnee.x)
        ankleWidth == Abs(leftAnkle.x - rightAnkle.x)
    IN  10 * kneeWidth < 9 * ankleWidth

checkKneesOverToes(knee, ankle) == knee.x > ankle.x + 50

(***************************************************************************)
(* A call of a kernel function with its outcome.  A landmark that is       *)
(* absent is undefined: reading its x or y raises a TypeError, which       *)
(* nothing in the kernel catches.  calculateAngle tests its arguments      *)
(* before reading them; the three functions below it do not.               *)
(***************************************************************************)
returned(fn, args, value) ==
    [called |-> TRUE, fn |-> fn, args |-> args, threw |-> FALSE, value |-> value]

raised(fn, args) ==
    [called |-> TRUE, fn |-> fn, args |-> args, threw |-> TRUE]

anyAbsent(args) == \E i \in 1..Len(args) : ~args[i].present

kernelCall(fn, args) ==
    CASE fn = "calculateAngle" ->
            returned(fn, args, calculateAngle(args[1], args[2], args[3]))
      [] fn = "calculateKneeAngle" ->
            returned(fn, args, calculateKneeAngle(args[1], args[2], args[3]))
      [] fn = "calculateHipAngle" ->
            returned(fn, args, calculateHipAngle(args[1], args[2], args[3]))
      [] fn = "calculateTorsoAngle" ->
            IF anyAbsent(args) THEN raised(fn, args)
            ELSE returned(fn, args, calculateTorsoAngle(args[1], args[2]))
      [] fn = "checkKneeCaveIn" ->
            IF anyAbsent(args) THEN raised(fn, args)
            ELSE returned(fn, args, checkKneeCaveIn(args[1], args[2], args[3], args[4]))
      [] fn = "checkKneesOverToes" ->
            IF anyAbsent(args) THEN raised(fn, args)
            ELSE returned(fn, args, checkKneesOverToes(args[1], args[2]))

(***************************************************************************)
(* Pose validity gate.                                                     *)
(***************************************************************************)
requiredLandmarks(pose) ==
    << pose.LEFT_HIP, pose.RIGHT_HIP, pose.LEFT_KNEE, pose.RIGHT_KNEE,
       pose.LEFT_ANKLE, pose.RIGHT_ANKLE, pose.LEFT_SHOULDER, pose.RIGHT_SHOULDER >>

visibilityOrOne(lm) == IF lm.visibility = NoVisibility THEN 1000 ELSE lm.visibility

\* lm.visibility ?? 0
visibilityOrZero(lm) == IF lm.visibility = NoVisibility THEN 0 ELSE lm.visibility

isPoseValidSome(pose) ==
    \E i \in 1..Len(requiredLandmarks(pose)) :
        LET lm == requiredLandmarks(pose)[i]
        IN  lm.present /\ visibilityOrZero(lm) >= MIN_VISIBILITY

isPoseValid(pose) ==
    \A i \in 1..Len(requiredLandmarks(pose)) :
        LET lm == requiredLandmarks(pose)[i]
        IN  lm.present /\ visibilityOrZero(lm) >= MIN_VISIBILITY

(***************************************************************************)
(* SquatDetector.                                                          *)
(***************************************************************************)
Phases == {"standing", "descending", "bottom", "ascending"}

\* (left + right) / 2 of the two knee angles, as the sum
avgKneeAngle2(pose) ==
    calculateKneeAngle(pose.LEFT_HIP, pose.LEFT_KNEE, pose.LEFT_ANKLE)
    + calculateKneeAngle(pose.RIGHT_HIP, pose.RIGHT_KNEE, pose.RIGHT_ANKLE)

\* (LEFT_HIP.y + RIGHT_HIP.y) / 2, as the sum
hipHeight2(pose) == pose.LEFT_HIP.y + pose.RIGHT_HIP.y

thresholdMetOrEqual(p, knee2) ==
    IF p = "standing" THEN knee2 <= 2 * Deg(STANDING_KNEE_THRESHOLD)
    ELSE IF p = "descending" THEN knee2 <= 2 * Deg(BOTTOM_KNEE_THRESHOLD)
    ELSE IF p = "bottom" THEN knee2 >= 2 * Deg(BOTTOM_KNEE_THRESHOLD + 10)
    ELSE knee2 >= 2 * Deg(STANDING_KNEE_THRESHOLD)

\* the knee-angle condition of the transition out of phase p
thresholdMet(p, knee2) ==
    IF p = "standing" THEN knee2 < 2 * Deg(STANDING_KNEE_THRESHOLD)
    ELSE IF p = "descending" THEN knee2 < 2 * Deg(BOTTOM_KNEE_THRESHOLD)
    ELSE IF p = "bottom" THEN knee2 > 2 * Deg(BOTTOM_KNEE_THRESHOLD + 10)
    ELSE knee2 > 2 * Deg(STANDING_KNEE_THRESHOLD)

debouncedEarly(cnt) == cnt >= DEBOUNCE_FRAMES

\* this.phaseFrameCount > DEBOUNCE_FRAMES
debounced(cnt) == cnt > DEBOUNCE_FRAMES

\* descentDistance >= MIN_DESCENT_DISTANCE, with hi and lo in units of 0.0005
descentReached(hi, lo) == hi - lo >= 2 * MIN_DESCENT_DISTANCE

\* the capture with its zero test dropped: every frame overwrites
capturedHighestAlways(hi, hip2) == hip2

\* highestHipHeight after the first-frame capture of lines 158-160
capturedHighest(hi, hip2) == IF hi = 0 THEN hip2 ELSE hi

ratchetedLowestAnywhere(p, lo, hip2) == IF hip2 < lo THEN hip2 ELSE lo

\* lowestHipHeight after the ratchet of lines 177-179
ratchetedLowest(p, lo, hip2) ==
    IF p = "descending" /\ hip2 < lo THEN hip2 ELSE lo

nextPhaseSkipping(p, knee2, cnt, dist) ==
    IF p = "standing" THEN
        IF knee2 < 2 * Deg(BOTTOM_KNEE_THRESHOLD) /\ debounced(cnt) THEN "bottom"
        ELSE IF thresholdMet(p, knee2) /\ debounced(cnt) THEN "descending" ELSE p
    ELSE IF p = "descending" THEN
        IF thresholdMet(p, knee2) /\ debounced(cnt) /\ dist THEN "bottom" ELSE p
    ELSE IF p = "bottom" THEN
        IF thresholdMet(p, knee2) /\ debounced(cnt) THEN "ascending" ELSE p
    ELSE
        IF thresholdMet(p, knee2) /\ debounced(cnt) THEN "standing" ELSE p

\* the phase the if-chain of lines 168-205 leaves; dist is the outcome of
\* descentDistance >= MIN_DESCENT_DISTANCE
nextPhase(p, knee2, cnt, dist) ==
    IF p = "standing" THEN
        IF thresholdMet(p, knee2) /\ debounced(cnt) THEN "descending" ELSE p
    ELSE IF p = "descending" THEN
        IF thresholdMet(p, knee2) /\ debounced(cnt) /\ dist THEN "bottom" ELSE p
    ELSE IF p = "bottom" THEN
        IF thresholdMet(p, knee2) /\ debounced(cnt) THEN "ascending" ELSE p
    ELSE
        IF thresholdMet(p, knee2) /\ debounced(cnt) THEN "standing" ELSE p

repCreditedLeavingBottom(p, knee2, cnt, dist) ==
    p = "bottom" /\ thresholdMet(p, knee2) /\ debounced(cnt)

\* the call runs this.repCount++ (lines 194-200)
repCredited(p, knee2, cnt, dist) ==
    p = "ascending" /\ thresholdMet(p, knee2) /\ debounced(cnt) /\ dist

countedFramesKept(p, newPhase, cnt) == cnt

\* phaseFrameCount after the call: the incremented count, or 0 after a
\* transition
countedFrames(p, newPhase, cnt) == IF newPhase # p THEN 0 ELSE cnt

repDurationAlways(credited, t, start) == t - start

\* repDuration: 0, or Date.now() - this.repStartTime in the crediting call
repDurationOf(credited, t, start) == IF credited THEN t - start ELSE 0

detectPhase(pose) ==
    IF ~isPoseValid(pose) THEN
        /\ ret' = [phase |-> phase, repCompleted |-> FALSE, repDuration |-> 0]
        /\ UNCHANGED detVars
    ELSE
        LET knee2 == avgKneeAngle2(pose)
            hip2 == hipHeight2(pose)
            hi == capturedHighest(highestHipHeight, hip2)
            cnt == phaseFrameCount + 1
            lo == ratchetedLowest(phase, lowestHipHeight, hip2)
            dist == descentReached(hi, lo)
            newPhase == nextPhase(phase, knee2, cnt, dist)
            credited == repCredited(phase, knee2, cnt, dist)
        IN  /\ phase' = newPhase
            /\ repCount' = IF credited THEN repCount + 1 ELSE repCount
            /\ lowestHipHeight' =
                   IF phase = "standing" /\ newPhase # phase THEN hip2 ELSE lo
            /\ highestHipHeight' =
                   IF phase = "ascending" /\ newPhase # phase THEN hip2 ELSE hi
            /\ phaseFrameCount' = countedFrames(phase, newPhase, cnt)
            /\ repStartTime' =
                   IF phase = "standing" /\ newPhase # phase THEN now ELSE repStartTime
            /\ formScores' =
                   IF phase = "standing" /\ newPhase # phase THEN <<>> ELSE formScores
            /\ startTime' = startTime
            /\ ret' = [phase |-> newPhase, repCompleted |-> credited,
                       repDuration |-> repDurationOf(credited, now, repStartTime)]

resetKeepingFrameCount ==
    /\ phase' = "standing"
    /\ repCount' = 0
    /\ lowestHipHeight' = 2000
    /\ highestHipHeight' = 0
    /\ phaseFrameCount' = phaseFrameCount
    /\ startTime' = now
    /\ formScores' = <<>>
    /\ repStartTime' = 0

reset ==
    /\ phase' = "standing"
    /\ repCount' = 0
    /\ lowestHipHeight' = 2000
    /\ highestHipHeight' = 0
    /\ phaseFrameCount' = 0
    /\ startTime' = now
    /\ formScores' = <<>>
    /\ repStartTime' = 0

\* the fields of a detector as its field initialisers leave them (those
\* that detectPhase reads to choose the phase and the rep count)
newDetector ==
    [phase |-> "standing", repCount |-> 0, lowestHipHeight |-> 2000,
     highestHipHeight |-> 0, phaseFrameCount |-> 0]

\* detectPhase as a function of those fields: the fields after the call
detectPhaseOf(d, pose) ==
    IF ~isPoseValid(pose) THEN d
    ELSE
        LET knee2 == avgKneeAngle2(pose)
            hip2 == hipHeight2(pose)
            hi == capturedHighest(d.highestHipHeight, hip2)
            cnt == d.phaseFrameCount + 1
            lo == ratchetedLowest(d.phase, d.lowestHipHeight, hip2)
            dist == descentReached(hi, lo)
            newPhase == nextPhase(d.phase, knee2, cnt, dist)
            credited == repCredited(d.phase, knee2, cnt, dist)
        IN  [phase |-> newPhase,
             repCount |-> IF credited THEN d.repCount + 1 ELSE d.repCount,
             lowestHipHeight |->
                 IF d.phase = "standing" /\ newPhase # d.phase THEN hip2 ELSE lo,
             highestHipHeight |->
                 IF d.phase = "ascending" /\ newPhase # d.phase THEN hip2 ELSE hi,
             phaseFrameCount |-> countedFrames(d.phase, newPhase, cnt)]

addFormScore(score) ==
    /\ formScores' = Append(formScores, score)
    /\ UNCHANGED <<phase, repCount, lowestHipHeight, highestHipHeight,
                   phaseFrameCount, startTime, repStartTime>>

(***************************************************************************)
(* Form scorer (SquatDetector.analyzeForm).  Angles averaged over the two  *)
(* sides are returned as sums (kneeAngle2, ...); depth is in thousandths   *)
(* of a percent.  ph is this.phase.                                        *)
(***************************************************************************)
\* Math.max(0, Math.min(100, v)) on thousandths
clamp100(v) == Max(0, Min(100000, v))

\* legLength > 0 ? clamp((hipKneeDistance / legLength) * 200) : 0, the
\* heights given as sums of the left and the right y
depthOf(hip2, knee2, ankle2) ==
    LET legLength2 == Abs(hip2 - ankle2)
        hipKneeDistance2 == hip2 - knee2
    IN  IF legLength2 > 0
        THEN clamp100(RoundDiv(hipKneeDistance2 * 200000, legLength2))
        ELSE 0

analyzeFormInvalid ==
    [called |-> TRUE, kneeAngle2 |-> 0, hipAngle2 |-> 0, torsoAngle2 |-> 0,
     depth |-> 0, kneeAlignment |-> FALSE, kneesOverToes |-> FALSE,
     overallScore |-> 0, feedback |-> <<"Cannot see full body clearly">>]

feedbackBySeverity(goDeeper, kneesCavedIn, overToes, chestUp, engageHips) ==
    (IF kneesCavedIn THEN <<"Push knees outward">> ELSE <<>>)
    \o (IF goDeeper THEN <<"Go deeper - hips below knees">> ELSE <<>>)
    \o (IF overToes THEN <<"Keep knees behind toes">> ELSE <<>>)
    \o (IF chestUp THEN <<"Keep chest up">> ELSE <<>>)
    \o (IF engageHips THEN <<"Engage hips more">> ELSE <<>>)

\* the feedback.push calls of lines 109-133, in their order
feedbackOf(goDeeper, kneesCavedIn, overToes, chestUp, engageHips) ==
    (IF goDeeper THEN <<"Go deeper - hips below knees">> ELSE <<>>)
    \o (IF kneesCavedIn THEN <<"Push knees outward">> ELSE <<>>)
    \o (IF overToes THEN <<"Keep knees behind toes">> ELSE <<>>)
    \o (IF chestUp THEN <<"Keep chest up">> ELSE <<>>)
    \o (IF engageHips THEN <<"Engage hips more">> ELSE <<>>)

analyzeFormUngated(pose, ph) ==
    LET kneeAngle2 ==
            calculateKneeAngle(pose.LEFT_HIP, pose.LEFT_KNEE, pose.LEFT_ANKLE)
            + calculateKneeAngle(pose.RIGHT_HIP, pose.RIGHT_KNEE, pose.RIGHT_ANKLE)
        hipAngle2 ==
            calculateHipAngle(pose.LEFT_SHOULDER, pose.LEFT_HIP, pose.LEFT_KNEE)
            + calculateHipAngle(pose.RIGHT_SHOULDER, pose.RIGHT_HIP, pose.RIGHT_KNEE)
        torsoAngle2 ==
            calculateTorsoAngle(pose.LEFT_SHOULDER, pose.LEFT_HIP)
            + calculateTorsoAngle(pose.RIGHT_SHOULDER, pose.RIGHT_HIP)
        hip2 == pose.LEFT_HIP.y + pose.RIGHT_HIP.y
        knee2 == pose.LEFT_KNEE.y + pose.RIGHT_KNEE.y
        ankle2 == pose.LEFT_ANKLE.y + pose.RIGHT_ANKLE.y
        kneesCavedIn == checkKneeCaveIn(pose.LEFT_KNEE, pose.RIGHT_KNEE,
                                        pose.LEFT_ANKLE, pose.RIGHT_ANKLE)
        overToes == \/ checkKneesOverToes(pose.LEFT_KNEE, pose.LEFT_ANKLE)
                    \/ checkKneesOverToes(pose.RIGHT_KNEE, pose.RIGHT_ANKLE)
        goDeeper == ph \in {"bottom", "descending"} /\ hip2 > knee2
        chestUp == torsoAngle2 > 2 * Deg(30)
        engageHips == hipAngle2 < 2 * Deg(30) /\ ph = "bottom"
        totalScore == 100 - (IF goDeeper THEN 15 ELSE 0)
                          - (IF kneesCavedIn THEN 20 ELSE 0)
                          - (IF overToes THEN 15 ELSE 0)
                          - (IF chestUp THEN 15 ELSE 0)
                          - (IF engageHips THEN 10 ELSE 0)
    IN  [called |-> TRUE, kneeAngle2 |-> kneeAngle2, hipAngle2 |-> hipAngle2,
         torsoAngle2 |-> torsoAngle2,
         depth |-> depthOf(hip2, knee2, ankle2),
         kneeAlignment |-> ~kneesCavedIn,
         kneesOverToes |-> overToes,
         overallScore |-> Max(0, totalScore),
         feedback |-> feedbackOf(goDeeper, kneesCavedIn, overToes, chestUp, engageHips)]

analyzeFormNoGate(pose, ph) == analyzeFormUngated(pose, ph)

analyzeForm(pose, ph) ==
    IF ~isPoseValid(pose) THEN analyzeFormInvalid
    ELSE analyzeFormUngated(pose, ph)

(***************************************************************************)
(* Advanced scorer (analyzeFormAgainstCoach).  A target keyframe carries   *)
(* progress in hundredths and angles in thousandths of a degree.  The      *)
(* function reads .x and .y of the eight joints without a presence test:   *)
(* with a joint absent the call ends in a TypeError, modelled by the       *)
(* result TypeError.  Feedback items keep severity, joint and message      *)
(* (the digits of kneeDiff.toFixed(0) are not rendered).                   *)
(***************************************************************************)
TypeError == [called |-> TRUE, threw |-> TRUE]

calculateAngleDifference(angle1, angle2) == Abs(angle1 - angle2)

FeedbackItem(severity, message, joint) ==
    [severity |-> severity, message |-> message, joint |-> joint]

severityOrder(item) ==
    CASE item.severity = "critical" -> 0
      [] item.severity = "warning" -> 1
      [] item.severity = "info" -> 2

sortBySeverityNot(feedback) == feedback

\* feedback.sort(...): Array.prototype.sort is stable
sortBySeverity(feedback) ==
    LET Rank(r) == SelectSeq(feedback, LAMBDA item : severityOrder(item) = r)
    IN  Rank(0) \o Rank(1) \o Rank(2)

currentPhaseOf(progress) ==
    IF progress < 25 THEN "descending"
    ELSE IF progress < 55 THEN "bottom"
    ELSE IF progress < 95 THEN "ascending"
    ELSE "standing"

depthCheckedInclusive(progress) == progress >= 40 /\ progress <= 60

\* targetKeyframe.progress > 0.4 && targetKeyframe.progress < 0.6
depthCheckedAt(progress) == progress > 40 /\ progress < 60

\* Math.max(0, 100 - (diff * 2)) in thousandths, diff2 being twice the
\* difference in thousandths of a degree
jointScore(diff2) == Max(0, 100000 - diff2)

torsoScoreDoubled(diff2) == Max(0, 100000 - diff2)

\* Math.max(0, 100 - (torsoDiff * 2.5)) in thousandths
torsoScoreOf(diff2) == Max(0, 100000 - RoundDiv(5 * diff2, 4))

analyzeFormAgainstCoachPresent(userPose, coachPose, targetKeyframe) ==
    LET userKneeAngle2 ==
            calculateKneeAngle(userPose.LEFT_HIP, userPose.LEFT_KNEE, userPose.LEFT_ANKLE)
            + calculateKneeAngle(userPose.RIGHT_HIP, userPose.RIGHT_KNEE, userPose.RIGHT_ANKLE)
        kneeDiff2 == calculateAngleDifference(userKneeAngle2, 2 * targetKeyframe.kneeAngle)
        kneeScore == jointScore(kneeDiff2)
        kneeCritical == kneeDiff2 > 2 * Deg(20)
        kneeWarning == ~kneeCritical /\ kneeDiff2 > 2 * Deg(10)
        userHipAngle2 ==
            calculateHipAngle(userPose.LEFT_SHOULDER, userPose.LEFT_HIP, userPose.LEFT_KNEE)
            + calculateHipAngle(userPose.RIGHT_SHOULDER, userPose.RIGHT_HIP, userPose.RIGHT_KNEE)
        hipDiff2 == calculateAngleDifference(userHipAngle2, 2 * targetKeyframe.hipAngle)
        hipScore == jointScore(hipDiff2)
        hipCritical == hipDiff2 > 2 * Deg(20)
        hipWarning == ~hipCritical /\ hipDiff2 > 2 * Deg(10)
        userTorsoAngle2 ==
            calculateTorsoAngle(userPose.LEFT_SHOULDER, userPose.LEFT_HIP)
            + calculateTorsoAngle(userPose.RIGHT_SHOULDER, userPose.RIGHT_HIP)
        torsoDiff2 == calculateAngleDifference(userTorsoAngle2, 2 * targetKeyframe.torsoAngle)
        torsoScore == torsoScoreOf(torsoDiff2)
        torsoCritical == userTorsoAngle2 > 2 * Deg(60)
        torsoWarning == ~torsoCritical /\ torsoDiff2 > 2 * Deg(15)
        userHipHeight2 == userPose.LEFT_HIP.y + userPose.RIGHT_HIP.y
        userKneeHeight2 == userPose.LEFT_KNEE.y + userPose.RIGHT_KNEE.y
        depthChecked == depthCheckedAt(targetKeyframe.progress)
        notDeep == depthChecked /\ ~(userHipHeight2 < userKneeHeight2)
        depthScore == IF notDeep
                      THEN Max(0, 100000 - 50 * (userHipHeight2 - userKneeHeight2))
                      ELSE 100000
        kneeWidth == Abs(userPose.LEFT_KNEE.x - userPose.RIGHT_KNEE.x)
        ankleWidth == Abs(userPose.LEFT_ANKLE.x - userPose.RIGHT_ANKLE.x)
        kneeValgus == 10 * kneeWidth < 8 * ankleWidth
        leftKneeOverToes == userPose.LEFT_KNEE.x > userPose.LEFT_ANKLE.x + 50
        rightKneeOverToes == userPose.RIGHT_KNEE.x < userPose.RIGHT_ANKLE.x - 50
        kneesOverToes == leftKneeOverToes \/ rightKneeOverToes
        spineNeutral == userTorsoAngle2 < 2 * Deg(60) /\ userTorsoAngle2 > 0
        avgX2 == userPose.LEFT_ANKLE.x + userPose.RIGHT_ANKLE.x
        hipX2 == userPose.LEFT_HIP.x + userPose.RIGHT_HIP.x
        weightDistribution ==
            IF Abs(hipX2 - avgX2) < 2 * 50 THEN "centered"
            ELSE IF hipX2 > avgX2 THEN "forward" ELSE "backward"
        totalScore == 100 - (IF kneeCritical THEN 15 ELSE IF kneeWarning THEN 8 ELSE 0)
                          - (IF hipCritical THEN 12 ELSE IF hipWarning THEN 6 ELSE 0)
                          - (IF torsoCritical THEN 15 ELSE IF torsoWarning THEN 8 ELSE 0)
                          - (IF notDeep THEN 20 ELSE 0)
                          - (IF kneeValgus THEN 20 ELSE 0)
                          - (IF kneesOverToes THEN 10 ELSE 0)
                          - (IF weightDistribution # "centered" THEN 8 ELSE 0)
        feedback ==
            (IF kneeCritical
             THEN <<FeedbackItem("critical",
                        IF userKneeAngle2 < 2 * targetKeyframe.kneeAngle
                        THEN "Knee angle off - Squat deeper"
                        ELSE "Knee angle off - Don't go as deep", "knee")>>
             ELSE IF kneeWarning
             THEN <<FeedbackItem("warning", "Adjust knee depth to match coach", "knee")>>
             ELSE <<>>)
            \o (IF hipCritical
                THEN <<FeedbackItem("critical",
                        IF userHipAngle2 < 2 * targetKeyframe.hipAngle
                        THEN "Hip angle off - Engage hips more"
                        ELSE "Hip angle off - Reduce hip flexion", "hip")>>
                ELSE IF hipWarning
                THEN <<FeedbackItem("warning", "Adjust hip position", "hip")>>
                ELSE <<>>)
            \o (IF torsoCritical
                THEN <<FeedbackItem("critical", "Keep chest up - excessive forward lean", "torso")>>
                ELSE IF torsoWarning
                THEN <<FeedbackItem("warning",
                        IF userTorsoAngle2 > 2 * targetKeyframe.torsoAngle
                        THEN "Chest up more" ELSE "Lean forward slightly", "torso")>>
                ELSE <<>>)
            \o (IF notDeep
                THEN <<FeedbackItem("critical", "Go deeper - hips must drop below knees", "hip")>>
                ELSE <<>>)
            \o (IF kneeValgus
                THEN <<FeedbackItem("critical", "Push knees outward - prevent knee cave", "knee")>>
                ELSE <<>>)
            \o (IF kneesOverToes
                THEN <<FeedbackItem("warning", "Knees tracking too far forward", "knee")>>
                ELSE <<>>)
            \o (IF weightDistribution # "centered"
                THEN <<FeedbackItem("warning",
                        IF weightDistribution = "forward"
                        THEN "Weight too far forward - center over mid-foot"
                        ELSE "Weight too far backward - center over mid-foot", "balance")>>
                ELSE <<>>)
    IN  [called |-> TRUE, threw |-> FALSE,
         overallScore |-> Max(0, Min(100, totalScore)),
         kneeScore |-> RoundDiv(kneeScore, 1000),
         hipScore |-> RoundDiv(hipScore, 1000),
         torsoScore |-> RoundDiv(torsoScore, 1000),
         ankleScore |-> 100,
         depthScore |-> RoundDiv(depthScore, 1000),
         alignment |-> [kneeValgus |-> kneeValgus, kneesOverToes |-> kneesOverToes,
                        spineNeutral |-> spineNeutral,
                        weightDistribution |-> weightDistribution],
         timing |-> [currentPhase |-> currentPhaseOf(targetKeyframe.progress),
                     phaseDuration |-> 0, movementSpeed |-> "optimal"],
         feedback |-> sortBySeverity(feedback)]

analyzeFormAgainstCoach(userPose, coachPose, targetKeyframe) ==
    IF \E j \in Joints : ~userPose[j].present THEN TypeError
    ELSE analyzeFormAgainstCoachPresent(userPose, coachPose, targetKeyframe)

(***************************************************************************)
(* Reference motion model.  A keyframe carries progress in hundredths and  *)
(* angles in thousandths of a degree.  A synthesized pose carries x and y  *)
(* of the eight joints the analysers read (z and the other landmarks are   *)
(* read by no analyser).                                                   *)
(***************************************************************************)
SquatKeyframe(progress, kneeAngle, hipAngle, ankleAngle, torsoAngle) ==
    [progress |-> progress, kneeAngle |-> Deg(kneeAngle), hipAngle |-> Deg(hipAngle),
     ankleAngle |-> Deg(ankleAngle), torsoAngle |-> Deg(torsoAngle)]

SQUAT_KEYFRAMES == <<
    SquatKeyframe(0, 175, 175, 90, 5),
    SquatKeyframe(20, 155, 150, 85, 15),
    SquatKeyframe(40, 130, 120, 75, 30),
    SquatKeyframe(50, 110, 95, 70, 45),
    SquatKeyframe(65, 130, 120, 75, 35),
    SquatKeyframe(80, 155, 150, 85, 20),
    SquatKeyframe(95, 170, 170, 88, 8),
    SquatKeyframe(100, 175, 175, 90, 5) >>

easeInCubic(num, den) == [num |-> 4 * num * num * num, den |-> den * den * den]

\* easeInOutCubic(num / den) as a fraction of den^3
easeInOutCubic(num, den) ==
    IF 2 * num < den
    THEN [num |-> 4 * num * num * num, den |-> den * den * den]
    ELSE [num |-> den * den * den - 4 * (den - num) * (den - num) * (den - num),
          den |-> den * den * den]

RECURSIVE GCD(_, _)
GCD(m, n) == IF n = 0 THEN m ELSE GCD(n, m % n)

\* the fraction num / den in lowest terms, num >= 0, den > 0
Fraction(num, den) ==
    LET g == GCD(num, den)
    IN  [num |-> num \div g, den |-> den \div g]
FracEq(p, q) == p.num * q.den = q.num * p.den
FracLeq(p, q) == p.num * q.den <= q.num * p.den

calculateSquatProgressUnpaused(timestamp, cycleDuration) ==
    LET cycleTime == timestamp % cycleDuration
    IN  Fraction(cycleTime, cycleDuration)

\* calculateSquatProgress as a fraction; the three durations are kept in
\* hundredths of a millisecond (cycleDuration * 0.5, * 0.08, * 0.42)
calculateSquatProgress(timestamp, cycleDuration) ==
    LET descendDuration == cycleDuration * 50
        pauseDuration == cycleDuration * 8
        ascendDuration == cycleDuration * 42
        cycleTime == 100 * (timestamp % cycleDuration)
    IN  IF cycleTime < descendDuration
        THEN \* t * 0.5, t = cycleTime / descendDuration
             Fraction(cycleTime, 2 * descendDuration)
        ELSE IF cycleTime < descendDuration + pauseDuration
        THEN Fraction(1, 2)
        ELSE \* 0.5 + (t * 0.5), t = (cycleTime - descend - pause) / ascend
             Fraction(ascendDuration + (cycleTime - descendDuration - pauseDuration),
                      2 * ascendDuration)

interpolateKeyframes(keyframes, progress) ==
    IF progress <= 0 THEN keyframes[1]
    ELSE IF progress >= 100 THEN keyframes[Len(keyframes)]
    ELSE
        LET found == {i \in 1..(Len(keyframes) - 1) :
                        /\ progress >= keyframes[i].progress
                        /\ progress <= keyframes[i + 1].progress}
            first == CHOOSE i \in found : \A j \in found : i <= j
            lowerFrame == IF found = {} THEN keyframes[1] ELSE keyframes[first]
            upperFrame == IF found = {} THEN keyframes[Len(keyframes)]
                          ELSE keyframes[first + 1]
            range == upperFrame.progress - lowerFrame.progress
            eased == IF range = 0 THEN easeInOutCubic(0, 1)
                     ELSE easeInOutCubic(progress - lowerFrame.progress, range)
            mix(lower, upper) == lower + RoundDiv((upper - lower) * eased.num, eased.den)
        IN  [progress |-> progress,
             kneeAngle |-> mix(lowerFrame.kneeAngle, upperFrame.kneeAngle),
             hipAngle |-> mix(lowerFrame.hipAngle, upperFrame.hipAngle),
             ankleAngle |-> mix(lowerFrame.ankleAngle, upperFrame.ankleAngle),
             torsoAngle |-> mix(lowerFrame.torsoAngle, upperFrame.torsoAngle)]

\* x and y of the synthesized joints depend on the keyframe through
\* depthFactor = 1 - (kneeAngle - 110) / 65 only
generateBiomechanicalSquatPose(kf) ==
    LET centerX == 500
        shoulderWidth == 200
        hipWidth == 190
        kneeWidth == 200
        ankleWidth == 170
        depthTimes(c) == RoundDiv(c * (Deg(175) - kf.kneeAngle), Deg(175 - 110))
        ankleY == 100 + 750
        kneeY == ankleY - 250 + depthTimes(150)
        hipY == kneeY - 250 + depthTimes(200)
        shoulderY == hipY - 300
    IN  [LEFT_ANKLE |-> createLandmark(centerX - ankleWidth \div 2, ankleY),
         RIGHT_ANKLE |-> createLandmark(centerX + ankleWidth \div 2, ankleY),
         LEFT_KNEE |-> createLandmark(centerX - kneeWidth \div 2, kneeY),
         RIGHT_KNEE |-> createLandmark(centerX + kneeWidth \div 2, kneeY),
         LEFT_HIP |-> createLandmark(centerX - hipWidth \div 2, hipY),
         RIGHT_HIP |-> createLandmark(centerX + hipWidth \div 2, hipY),
         LEFT_SHOULDER |-> createLandmark(centerX - shoulderWidth \div 2, shoulderY),
         RIGHT_SHOULDER |-> createLandmark(centerX + shoulderWidth \div 2, shoulderY)]

(***************************************************************************)
(* Session aggregator (calculateMovementQuality).  Scores are integers of  *)
(* 0..100, durations are in ms.  With n scores of sum t the deviations are *)
(* kept as n * score - t, so that the variance is devSq / n^3 exactly.     *)
(***************************************************************************)
RECURSIVE SumOf(_)
SumOf(seq) == IF seq = <<>> THEN 0 ELSE Head(seq) + SumOf(Tail(seq))

RECURSIVE DevSqOf(_, _, _)
DevSqOf(seq, n, t) ==
    IF seq = <<>> THEN 0
    ELSE (n * Head(seq) - t) * (n * Head(seq) - t) + DevSqOf(Tail(seq), n, t)

\* Math.round(Math.max(0, 100 - standardDeviation * 2)): the largest c with
\* c <= 100.5 - 2 * sqrt(devSq / n^3)
roundedConsistency(devSq, n) ==
    LET fits == {c \in 0..100 : 16 * devSq <= (201 - 2 * c) * (201 - 2 * c) * n * n * n}
    IN  IF fits = {} THEN 0 ELSE CHOOSE c \in fits : \A d \in fits : d <= c

movementQualityEmpty ==
    [called |-> TRUE, threw |-> FALSE, averageForm |-> 0, consistency |-> 0,
     tempo |-> "optimal",
     recommendation |-> <<"Keep practicing to establish baseline">>]

\* the recommendation is kept as the sequence of its parts (joined by ' | ')
tempoOfInclusive(repDurations) ==
    LET m == Len(repDurations)
    IN  IF m > 0 /\ SumOf(repDurations) <= 3000 * m THEN "too_fast"
        ELSE IF m > 0 /\ SumOf(repDurations) >= 7000 * m THEN "too_slow"
        ELSE "optimal"

\* avgDuration < 3000 and avgDuration > 7000 on the sum, for a non-empty list
tempoOf(repDurations) ==
    LET m == Len(repDurations)
    IN  IF m > 0 /\ SumOf(repDurations) < 3000 * m THEN "too_fast"
        ELSE IF m > 0 /\ SumOf(repDurations) > 7000 * m THEN "too_slow"
        ELSE "optimal"

movementQualityOf(scores, repDurations) ==
    LET n == Len(scores)
        t == SumOf(scores)
        devSq == DevSqOf(scores, n, t)
        tempo == tempoOf(repDurations)
        base == IF t < 60 * n
                THEN "Focus on form over speed - reduce weight if needed"
                ELSE IF t < 80 * n
                THEN "Good progress - refine depth and alignment"
                ELSE IF devSq > 225 * n * n * n
                THEN "Great form - work on consistency across reps"
                ELSE "Excellent form and consistency - consider adding weight"
    IN  [called |-> TRUE, threw |-> FALSE,
         averageForm |-> (2 * t + n) \div (2 * n),
         consistency |-> roundedConsistency(devSq, n),
         tempo |-> tempo,
         recommendation |->
            <<base>> \o (IF tempo = "too_fast"
                         THEN <<"Slow down your descent (2-3 seconds)">>
                         ELSE IF tempo = "too_slow"
                         THEN <<"Speed up slightly while maintaining control">>
                         ELSE <<>>)]

calculateMovementQualityNoGuard(scores, repDurations) ==
    IF Len(scores) = 0 THEN [called |-> TRUE, threw |-> TRUE]
    ELSE movementQualityOf(scores, repDurations)

calculateMovementQuality(scores, repDurations) ==
    IF Len(scores) = 0 THEN movementQualityEmpty
    ELSE movementQualityOf(scores, repDurations)

(***************************************************************************)
(* Voice feedback queue (VoiceFeedbackQueue).  A queue state st carries    *)
(* the fields queue, isSpeaking and lastSpokenMessages, the messages whose *)
(* generateSpeech promise is pending (inFlight: generateSpeech resolves    *)
(* when the playback has ended) and started, the feedback whose speech the *)
(* call began, if any.  currentAudio is assigned nowhere in the class: it  *)
(* is null whenever stopCurrentSpeech reads it.  Times are in ms.          *)
(***************************************************************************)
THROTTLE_DURATION == 3000

NoFeedback == [message |-> "", priority |-> "none"]

priorityOrder(priority) ==
    CASE priority = "critical" -> 0
      [] priority = "important" -> 1
      [] priority = "normal" -> 2
      [] priority = "encouragement" -> 3

sortByPriorityNot(q) == q

\* this.queue.sort(...): Array.prototype.sort is stable
sortByPriority(q) ==
    LET Rank(r) == SelectSeq(q, LAMBDA fb : priorityOrder(fb.priority) = r)
    IN  Rank(0) \o Rank(1) \o Rank(2) \o Rank(3)

\* this.lastSpokenMessages.get(message) || 0
lastSpokenOf(map, message) == IF message \in DOMAIN map THEN map[message] ELSE 0

\* now - lastSpoken < this.THROTTLE_DURATION
throttled(map, message, t) == t - lastSpokenOf(map, message) < THROTTLE_DURATION

\* processQueue up to its await generateSpeech(feedback.message)
processQueue(st, t) ==
    IF Len(st.queue) = 0 \/ st.isSpeaking THEN [st EXCEPT !.started = NoFeedback]
    ELSE LET sorted == sortByPriority(st.queue)
             feedback == Head(sorted)
         IN  [queue |-> Tail(sorted),
              isSpeaking |-> TRUE,
              lastSpokenMessages |->
                  [m \in DOMAIN st.lastSpokenMessages \cup {feedback.message} |->
                      IF m = feedback.message THEN t ELSE st.lastSpokenMessages[m]],
              inFlight |-> Append(st.inFlight, feedback.message),
              started |-> feedback]

\* currentAudio is null: no playback is paused
stopCurrentSpeech(st) == [st EXCEPT !.isSpeaking = FALSE]

addFeedback(st, feedback, t) ==
    IF throttled(st.lastSpokenMessages, feedback.message, t)
    THEN [st EXCEPT !.started = NoFeedback]
    ELSE IF feedback.priority = "critical"
    THEN LET unshifted == [st EXCEPT !.queue = <<feedback>> \o @]
             stopped == IF unshifted.isSpeaking THEN stopCurrentSpeech(unshifted)
                        ELSE unshifted
         IN  processQueue(stopped, t)
    ELSE LET pushed == [st EXCEPT !.queue = Append(@, feedback)]
         IN  IF ~pushed.isSpeaking THEN processQueue(pushed, t)
             ELSE [pushed EXCEPT !.started = NoFeedback]

speechSettledOnly(st, i, t) ==
    [st EXCEPT !.inFlight = SubSeq(@, 1, i - 1) \o SubSeq(@, i + 1, Len(@)),
               !.isSpeaking = FALSE,
               !.started = NoFeedback]

\* the rest of a processQueue call once its generateSpeech promise for the
\* i-th pending message has settled (resolved or rejected): the finally block
speechSettled(st, i, t) ==
    LET settled == [st EXCEPT
                        !.inFlight = SubSeq(@, 1, i - 1) \o SubSeq(@, i + 1, Len(@)),
                        !.isSpeaking = FALSE]
    IN  IF Len(settled.queue) > 0 THEN processQueue(settled, t)
        ELSE [settled EXCEPT !.started = NoFeedback]

clear(st) == [stopCurrentSpeech([st EXCEPT !.queue = <<>>]) EXCEPT !.started = NoFeedback]

(***************************************************************************)
(* Frames fed to the detector.  A frame is built around the left hip: the  *)
(* knee hangs from the hip by the thigh vector, the ankle 0.25 below the   *)
(* knee, the shoulder 0.30 above the hip; the right side is the left side  *)
(* moved 0.10 to the right.  thigh is hip - knee.                          *)
(***************************************************************************)
MkFrame(hipY, thigh) ==
    LET hipL == createLandmark(450, hipY)
        kneeL == createLandmark(450 - thigh.dx, hipY - thigh.dy)
        ankleL == createLandmark(kneeL.x, kneeL.y + 250)
        shoulderL == createLandmark(450, hipY - 300)
        right(lm) == createLandmark(lm.x + 100, lm.y)
    IN  [LEFT_HIP |-> hipL, RIGHT_HIP |-> right(hipL),
         LEFT_KNEE |-> kneeL, RIGHT_KNEE |-> right(kneeL),
         LEFT_ANKLE |-> ankleL, RIGHT_ANKLE |-> right(ankleL),
         LEFT_SHOULDER |-> shoulderL, RIGHT_SHOULDER |-> right(shoulderL)]

Without(pose, joint) == [pose EXCEPT ![joint] = Absent]
WithVisibility(pose, joint, v) == [pose EXCEPT ![joint].visibility = v]

\* thigh vectors giving knee angles of about 175, 172, 165, 95 and 85 degrees
Knee175 == [dx |-> 22, dy |-> -249]
Knee172 == [dx |-> 35, dy |-> -248]
Knee165 == [dx |-> 65, dy |-> -241]
Knee95 == [dx |-> 249, dy |-> -22]
Knee85 == [dx |-> 249, dy |-> 22]

Thighs == {Knee175, Knee165, Knee95, Knee85}
HipYs == {-200, 0, 300}

ValidFrames == {MkFrame(h, t) : h \in HipYs, t \in Thighs}
InvalidFrames ==
    { Without(MkFrame(300, Knee85), "LEFT_KNEE"),
      WithVisibility(MkFrame(300, Knee85), "RIGHT_SHOULDER", 699),
      WithVisibility(MkFrame(300, Knee175), "LEFT_HIP", NoVisibility) }
Frames == ValidFrames \cup InvalidFrames

\* the validity gate as the specification words it
JointsVisible(pose) ==
    \A j \in Joints :
        /\ pose[j].present
        /\ pose[j].visibility # NoVisibility
        /\ pose[j].visibility >= 700

\* the conditions the transition out of the current phase puts on a frame,
\* the debounce apart
CrossCond(pose) ==
    /\ thresholdMet(phase, avgKneeAngle2(pose))
    /\ phase = "descending" =>
          descentReached(capturedHighest(highestHipHeight, hipHeight2(pose)),
                         ratchetedLowest(phase, lowestHipHeight, hipHeight2(pose)))

NoForm == [called |-> FALSE]
NoCoach == [called |-> FALSE]
NoGate == [called |-> FALSE]
NoKeyframe == [progress |-> 0, kneeAngle |-> 0, hipAngle |-> 0,
               ankleAngle |-> 0, torsoAngle |-> 0]
NoScript == [running |-> FALSE]

NoQuality == [called |-> FALSE]
NoGeometry == [called |-> FALSE]
NoTwin == [live |-> FALSE]
NoMotion == [called |-> FALSE]
NoSpeech == [message |-> "", gap |-> -1]
NoAdd == [called |-> FALSE]

SessionInit ==
    /\ sessionScores = <<>>
    /\ sessionDurations = <<>>
    /\ quality = NoQuality

\* a VoiceFeedbackQueue as constructed
VoiceQueueInit ==
    /\ queue = <<>>
    /\ isSpeaking = FALSE
    /\ lastSpokenMessages = [m \in {} |-> 0]
    /\ inFlight = <<>>
    /\ spoke = NoSpeech
    /\ lastAdd = NoAdd

ScoreInit ==
    /\ SessionInit
    /\ VoiceQueueInit
    /\ geometry = NoGeometry /\ twin = NoTwin /\ motion = NoMotion
    /\ inPose = MkFrame(300, Knee175)
    /\ keyframe = NoKeyframe
    /\ source = "camera"
    /\ gate = NoGate
    /\ form = NoForm
    /\ coach = NoCoach

DetectorNew ==
    /\ phase = "standing"
    /\ repCount = 0
    /\ lowestHipHeight = 2000
    /\ highestHipHeight = 0
    /\ phaseFrameCount = 0
    /\ startTime = 0
    /\ formScores = <<>>
    /\ repStartTime = 0
    /\ ret = [phase |-> "standing", repCompleted |-> FALSE, repDuration |-> 0]
    /\ last = [op |-> "new", valid |-> FALSE]
    /\ callsInPhase = 0
    /\ allCross = TRUE
    /\ crossRun = 0
    /\ phaseTrace = <<"standing">>

DetectorInit == DetectorNew /\ now = 1

Init ==
    /\ DetectorInit
    /\ script = NoScript
    /\ ScoreInit

\* one frame through detectPhase, with the bookkeeping of the history
\* crossRun after a call on pose: the valid frames since the last frame of
\* the phase that did not meet its knee threshold, counted up to
\* DEBOUNCE_FRAMES (kept by SpecBoundary only)
crossRunAfter(pose) ==
    IF ~JointsVisible(pose) THEN crossRun
    ELSE IF phase' # phase THEN 0
    ELSE IF thresholdMet(phase, avgKneeAngle2(pose))
         THEN Min(crossRun + 1, DEBOUNCE_FRAMES)
    ELSE 0

Feed(pose) ==
    /\ detectPhase(pose)
    /\ last' = [op |-> "detectPhase", valid |-> JointsVisible(pose)]
    /\ callsInPhase' = IF ~JointsVisible(pose) THEN callsInPhase
                        ELSE IF phase' # phase THEN 0 ELSE callsInPhase + 1
    /\ allCross' = IF ~JointsVisible(pose) THEN allCross
                    ELSE IF phase' # phase THEN TRUE ELSE allCross /\ CrossCond(pose)
    /\ phaseTrace' = IF ret'.phase # phaseTrace[Len(phaseTrace)]
                      THEN Append(phaseTrace, ret'.phase) ELSE phaseTrace

DetectPhase ==
    /\ repCount < MaxReps
    /\ \E pose \in Frames :
          /\ isPoseValid(pose) => phaseFrameCount < MaxFrameCount
          /\ Feed(pose)
    /\ UNCHANGED <<crossRun, now, script, scoreVars>>

ResetCall ==
    /\ last.op # "reset"
    /\ reset
    /\ ret' = ret
    /\ last' = [op |-> "reset", valid |-> FALSE]
    /\ callsInPhase' = 0
    /\ allCross' = TRUE
    /\ crossRun' = 0
    /\ phaseTrace' = <<"standing">>

Reset ==
    /\ ResetCall
    /\ UNCHANGED <<now, script, scoreVars>>

Scores == {85}

AddFormScore ==
    /\ Len(formScores) < MaxScores
    /\ \E score \in Scores : addFormScore(score)
    /\ UNCHANGED <<now, ret, last, histVars, script, scoreVars>>

Tick ==
    /\ now < MaxTime
    /\ now' = now + 1
    /\ UNCHANGED <<detVars, ret, last, histVars, script, scoreVars>>

Next == DetectPhase \/ Reset \/ AddFormScore \/ Tick

Spec == Init /\ [][Next]_vars

(***************************************************************************)
(* Claims about the phase machine.                                         *)
(***************************************************************************)
\* the hip-height excursion of the cycle that a call Ascending -> Standing
\* completes: highest recorded hip height minus lowest.  The hip height of
\* the completing frame is the highestHipHeight the call leaves (it stands
\* for the highest when none was recorded before).
CompletedExcursion2 ==
    (IF highestHipHeight = 0 THEN highestHipHeight' ELSE highestHipHeight)
    - lowestHipHeight

\* C1: over detectPhase calls (no reset in between) repCount never
\* decreases, changes by at most 1 per call, and grows by exactly 1 in the
\* calls that complete a cycle (Ascending -> Standing) whose hip-height
\* excursion is at least MIN_DESCENT_DISTANCE, and in no other call.
C1_RepCountPerCycle ==
    [][ last'.op = "detectPhase" =>
          /\ repCount' \in {repCount, repCount + 1}
          /\ repCount' = repCount + 1 <=>
                /\ phase = "ascending" /\ phase' = "standing"
                /\ CompletedExcursion2 >= 2 * MIN_DESCENT_DISTANCE ]_vars

\* a second rep has just been credited
C1_Witness ==
    /\ last.op = "detectPhase" /\ ret.repCompleted
    /\ repCount = 2 /\ phase = "standing" /\ phaseFrameCount = 0

Successor(p) ==
    CASE p = "standing" -> "descending"
      [] p = "descending" -> "bottom"
      [] p = "bottom" -> "ascending"
      [] p = "ascending" -> "standing"

\* C2: every detectPhase call leaves the phase where it was or moves it to
\* its immediate successor in Standing -> Descending -> Bottom -> Ascending
\* -> Standing, whatever frame it is given.
C2_NoPhaseSkipped ==
    [][ last'.op = "detectPhase" => phase' \in {phase, Successor(phase)} ]_vars

\* a call has just moved Descending to Bottom
C2_Witness ==
    /\ last.op = "detectPhase" /\ last.valid
    /\ phase = "bottom" /\ phaseFrameCount = 0
    /\ phaseTrace = <<"standing", "descending", "bottom">>

\* C5: counting the valid frames fed since the last reset or transition, no
\* transition happens on one of the first DEBOUNCE_FRAMES frames, and when
\* every frame met the phase's threshold condition (and travel gate) the
\* transition happens on frame DEBOUNCE_FRAMES + 1.
C5_DebounceBoundary ==
    [][ last'.op = "detectPhase" =>
          /\ phase' # phase => callsInPhase + 1 > DEBOUNCE_FRAMES
          /\ allCross' => callsInPhase' <= DEBOUNCE_FRAMES ]_vars

\* eight qualifying frames have been fed in Ascending and the phase is held
C5_Witness ==
    /\ last.op = "detectPhase" /\ last.valid
    /\ phase = "ascending" /\ allCross /\ callsInPhase = DEBOUNCE_FRAMES

\* C6: a detectPhase call on a frame that fails the validity gate changes
\* no field of the detector and returns the unchanged phase with
\* repCompleted = false and repDuration = 0.
C6_InvalidFrameNoOp ==
    [][ \A pose \in Frames : (~JointsVisible(pose) /\ detectPhase(pose)) =>
          /\ UNCHANGED detVars
          /\ ret' = [phase |-> phase, repCompleted |-> FALSE, repDuration |-> 0] ]_vars

\* an invalid frame arrived in the middle of a descent, with a score stored
C6_Witness ==
    /\ last.op = "detectPhase" /\ ~last.valid
    /\ phase = "descending" /\ phaseFrameCount = 3 /\ Len(formScores) = 1
    /\ ret = [phase |-> "descending", repCompleted |-> FALSE, repDuration |-> 0]

(***************************************************************************)
(* The scripted scenario of the specification's testable properties: the   *)
(* knee angle is held at 175, then 165, then a bottom angle, then 172      *)
(* degrees, each for at least DEBOUNCE_FRAMES + 1 frames, while the hip y  *)
(* moves by script.drop from the first to the third stage (half of it in   *)
(* the second) and is back at its start in the fourth.  The fourth stage   *)
(* is held for up to 2 * MaxHold frames; script.fed of a finished script   *)
(* is the number of frames of the fourth stage.                            *)
(***************************************************************************)
ScriptMinHold == DEBOUNCE_FRAMES + 1

ScriptFrame(sc) ==
    CASE sc.stage = 1 -> MkFrame(sc.hipY, Knee175)
      [] sc.stage = 2 -> MkFrame(sc.hipY + sc.drop \div 2, Knee165)
      [] sc.stage = 3 -> MkFrame(sc.hipY + sc.drop, sc.bottomKnee)
      [] sc.stage = 4 -> MkFrame(sc.hipY, Knee172)

ScenarioInit ==
    /\ DetectorInit
    /\ ScoreInit
    /\ script \in [running : {TRUE}, stage : {1}, fed : {0},
                    bottomKnee : {Knee95, Knee85},
                    hipY : {400}, drop : {200, 50, -50, -200}]

PlayFrame ==
    /\ script.stage <= 4
    /\ script.fed < (IF script.stage = 4 THEN 2 * MaxHold ELSE MaxHold)
    /\ Feed(ScriptFrame(script))
    /\ script' = [script EXCEPT !.fed = @ + 1]
    /\ now' = now + 1
    /\ UNCHANGED <<crossRun, scoreVars>>

NextStage ==
    /\ script.stage <= 4
    /\ script.fed >= ScriptMinHold
    /\ script' = [script EXCEPT !.stage = @ + 1,
                                !.fed = IF script.stage = 4 THEN @ ELSE 0]
    /\ UNCHANGED <<detVars, now, ret, last, histVars, scoreVars>>

ScenarioNext == PlayFrame \/ NextStage

SpecScenario == ScenarioInit /\ [][ScenarioNext]_vars

ScriptDone == script.stage = 5

FullCycle == <<"standing", "descending", "bottom", "ascending", "standing">>

\* C4: knee angle 175, 165, 95 held 9 or more frames each while the hip y
\* grows by 0.20, then 9 or more frames at 172: the reported phases are
\* exactly Standing, Descending, Bottom, Ascending, Standing and repCount
\* ends at 1.
C4_DeepSquatCounted ==
    (ScriptDone /\ script.bottomKnee = Knee95 /\ script.drop = 200) =>
        (phaseTrace = FullCycle /\ repCount = 1)

\* C3: a bend whose knee angle dips below the bottom threshold while the
\* hip moves by only 0.05, followed by more than DEBOUNCE_FRAMES frames
\* above the standing threshold, ends in Standing with repCount unchanged.
C3_ShallowBendRejected ==
    (ScriptDone /\ script.bottomKnee = Knee85 /\ script.drop \in {50, -50}) =>
        (phase = "standing" /\ repCount = 0)

\* what the detector does with the scenario: with the hip y growing, or
\* moving by less than MIN_DESCENT_DISTANCE, or with a bottom angle of 95
\* degrees, the run ends in Descending with no rep
ScenarioStuckDescending ==
    (ScriptDone /\ (script.drop # -200 \/ script.bottomKnee = Knee95)) =>
        (phaseTrace = <<"standing", "descending">> /\ repCount = 0)

\* with the hip y shrinking by 0.20 and a bottom angle of 85 degrees the rep
\* is counted when the last stage is held for 2 * (DEBOUNCE_FRAMES + 1)
\* frames or more, and the run ends in Ascending when it is held for
\* DEBOUNCE_FRAMES + 1 frames
ScenarioCountedWhenYShrinks ==
    (ScriptDone /\ script.drop = -200 /\ script.bottomKnee = Knee85) =>
        /\ script.fed >= 2 * ScriptMinHold => (phaseTrace = FullCycle /\ repCount = 1)
        /\ script.fed = ScriptMinHold =>
              (phaseTrace = SubSeq(FullCycle, 1, 4) /\ repCount = 0)

\* the downward travel of the hip in the scripted cycle, in units of 0.001:
\* the largest hip y of the frames of stages 2 to 4 less the hip y of the
\* cycle's first frame (stage 2); larger y is lower on screen
ScriptTravel(sc) ==
    LET start == sc.hipY + sc.drop \div 2
        largest == Max(start, Max(sc.hipY + sc.drop, sc.hipY))
    IN  largest - start

\* C17: a rep is credited only if the hip travelled downward by
\* MIN_DESCENT_DISTANCE or more during the cycle: the largest hip y seen in
\* the cycle less the hip y at its start is 0.15 or more.
C17_CreditNeedsDownwardTravel ==
    repCount > 0 => ScriptTravel(script) >= MIN_DESCENT_DISTANCE

\* a rep was credited in a cycle whose hip y shrank by 0.20 and came back
C17_Witness ==
    /\ repCount = 1 /\ script.drop = -200
    /\ ScriptTravel(script) < MIN_DESCENT_DISTANCE

\* what holds of C17: a rep is credited only in the scenario whose hip y
\* shrinks by MIN_DESCENT_DISTANCE or more
CreditNeedsShrinkingY ==
    repCount > 0 => -script.drop >= MIN_DESCENT_DISTANCE

(***************************************************************************)
(* The scorers and the reference motion model applied to poses.  The       *)
(* detector is held in a state it reaches at the entry of one of its four  *)
(* phases (analyzeForm reads this.phase only); the poses cover absent      *)
(* joints, visibilities around MIN_VISIBILITY, a leg of length 0, knees    *)
(* above the hips, caved knees, knees past the ankles, a leaning torso and *)
(* hips off the mid-foot.                                                  *)
(***************************************************************************)
PhaseEntries == {
    [phase |-> "standing", lowestHipHeight |-> 2000, highestHipHeight |-> 0,
     repStartTime |-> 0],
    [phase |-> "descending", lowestHipHeight |-> 600, highestHipHeight |-> 600,
     repStartTime |-> 1],
    [phase |-> "bottom", lowestHipHeight |-> -400, highestHipHeight |-> 600,
     repStartTime |-> 1],
    [phase |-> "ascending", lowestHipHeight |-> -400, highestHipHeight |-> 600,
     repStartTime |-> 1] }

AtPhaseEntry(e) ==
    /\ phase = e.phase
    /\ repCount = 0
    /\ lowestHipHeight = e.lowestHipHeight
    /\ highestHipHeight = e.highestHipHeight
    /\ phaseFrameCount = 0
    /\ startTime = 0
    /\ formScores = <<>>
    /\ repStartTime = e.repStartTime

MkBody(shoulder, hipY, knee, ankleY, shift) ==
    LET mirror(lm) == createLandmark(1000 - lm.x, lm.y)
        moved(lm) == createLandmark(lm.x + shift, lm.y)
        shoulderL == createLandmark(shoulder.x, shoulder.y)
        hipL == createLandmark(405, hipY)
        kneeL == createLandmark(knee.x, knee.y)
        ankleL == createLandmark(415, ankleY)
    IN  [LEFT_SHOULDER |-> shoulderL, RIGHT_SHOULDER |-> mirror(shoulderL),
         LEFT_HIP |-> moved(hipL), RIGHT_HIP |-> moved(mirror(hipL)),
         LEFT_KNEE |-> kneeL, RIGHT_KNEE |-> mirror(kneeL),
         LEFT_ANKLE |-> ankleL, RIGHT_ANKLE |-> mirror(ankleL)]

BodyShoulders == {[x |-> 400, y |-> 200], [x |-> 250, y |-> 300], [x |-> 100, y |-> 450]}
BodyHipYs == {500, 800}
BodyKnees == {[x |-> 400, y |-> 750], [x |-> 470, y |-> 750],
              [x |-> 330, y |-> 750], [x |-> 400, y |-> 450],
              [x |-> 425, y |-> 750]}
BodyAnkleYs == {1000, 500}
Upright == MkBody([x |-> 400, y |-> 200], 500, [x |-> 400, y |-> 750], 1000, 0)

VisiblePoses ==
    {MkBody(s, h, k, a, 0) : s \in BodyShoulders, h \in BodyHipYs,
                             k \in BodyKnees, a \in BodyAnkleYs}
    \cup {MkBody([x |-> 400, y |-> 200], 500, [x |-> 400, y |-> 750], 1000, d) :
            d \in {-60, 60}}
    \cup {WithVisibility(Upright, "LEFT_ANKLE", MIN_VISIBILITY)}

HiddenPoses ==
    {Without(Upright, "LEFT_HIP"),
     Without(Upright, "RIGHT_SHOULDER"),
     WithVisibility(Upright, "RIGHT_KNEE", MIN_VISIBILITY - 1),
     WithVisibility(Upright, "LEFT_SHOULDER", NoVisibility),
     WithVisibility(MkBody([x |-> 100, y |-> 450], 800, [x |-> 470, y |-> 750], 1000, 0),
                    "RIGHT_ANKLE", 0)}

ScorePoses == VisiblePoses \cup HiddenPoses
Progresses == 0..100

FormInit ==
    /\ \E e \in PhaseEntries : AtPhaseEntry(e)
    /\ now = 1
    /\ ret = [phase |-> phase, repCompleted |-> FALSE, repDuration |-> 0]
    /\ last = [op |-> "detectPhase", valid |-> TRUE]
    /\ callsInPhase = 0
    /\ allCross = TRUE
    /\ crossRun = 0
    /\ phaseTrace = <<phase>>
    /\ script = NoScript
    /\ SessionInit
    /\ VoiceQueueInit
    /\ geometry = NoGeometry /\ twin = NoTwin /\ motion = NoMotion
    /\ inPose = Upright
    /\ keyframe = NoKeyframe
    /\ source = "camera"
    /\ gate = NoGate
    /\ form = NoForm
    /\ coach = NoCoach

formFrame == <<detVars, now, ret, last, histVars, script, sessionVars, voiceVars, geometry, twin, motion>>

ChoosePose ==
    /\ \E pose \in ScorePoses : inPose' = pose
    /\ source' = "camera"
    /\ gate' = NoGate
    /\ form' = NoForm
    /\ coach' = NoCoach
    /\ keyframe' = IF source = "synthesized" THEN NoKeyframe ELSE keyframe
    /\ UNCHANGED formFrame

\* the progress values of the interpolated keyframes a pose of the camera
\* is compared with: next to and on the ends of the depth check's window
CameraProgresses == {41, 59, 60}

\* a target keyframe for a pose of the camera: one of the table, or the
\* table interpolated at the progress of the moment
ChooseKeyframe ==
    /\ source = "camera"
    /\ \/ \E i \in 1..Len(SQUAT_KEYFRAMES) : keyframe' = SQUAT_KEYFRAMES[i]
       \/ \E p \in CameraProgresses :
            keyframe' = interpolateKeyframes(SQUAT_KEYFRAMES, p)
    /\ source' = "camera"
    /\ coach' = NoCoach
    /\ UNCHANGED <<inPose, gate, form, formFrame>>

\* the reference motion model's pose for a progress value
Synthesize ==
    /\ \E p \in Progresses :
        /\ keyframe' = interpolateKeyframes(SQUAT_KEYFRAMES, p)
        /\ inPose' = generateBiomechanicalSquatPose(keyframe')
    /\ source' = "synthesized"
    /\ gate' = NoGate
    /\ form' = NoForm
    /\ coach' = NoCoach
    /\ UNCHANGED formFrame

CheckGate ==
    /\ gate' = [called |-> TRUE, valid |-> isPoseValid(inPose)]
    /\ UNCHANGED <<inPose, keyframe, source, form, coach, formFrame>>

AnalyzeForm ==
    /\ form' = analyzeForm(inPose, phase)
    /\ UNCHANGED <<inPose, keyframe, source, gate, coach, formFrame>>

AnalyzeFormAgainstCoach ==
    /\ keyframe # NoKeyframe
    /\ coach' = analyzeFormAgainstCoach(inPose,
                    generateBiomechanicalSquatPose(keyframe), keyframe)
    /\ UNCHANGED <<inPose, keyframe, source, gate, form, formFrame>>

FormNext ==
    \/ ChoosePose
    \/ ChooseKeyframe
    \/ Synthesize
    \/ CheckGate
    \/ AnalyzeForm
    \/ AnalyzeFormAgainstCoach

SpecForm == FormInit /\ [][FormNext]_vars

\* every phase entry is a state of the detector under Spec
PhaseEntryNotReached(p) == ~(\E e \in PhaseEntries : e.phase = p /\ AtPhaseEntry(e))

(***************************************************************************)
(* Claims about the scorers, stated over SpecForm.                         *)
(***************************************************************************)
\* C7: for every input pose and every detector phase analyzeForm returns
\* overallScore and depth within [0,100], and for every input pose and target
\* keyframe analyzeFormAgainstCoach returns overallScore within [0,100].
C7_ScoresInRange ==
    /\ form.called => /\ form.overallScore \in 0..100
                      /\ form.depth >= 0 /\ form.depth <= 100000
    /\ coach.called => /\ ~coach.threw
                       /\ coach.overallScore \in 0..100

\* analyzeFormAgainstCoach ended in a TypeError on a pose with an absent joint
C7_Witness ==
    /\ coach.called /\ coach.threw
    /\ \E j \in Joints : ~inPose[j].present

\* what holds of C7: every result that is returned is in range
ReturnedScoresInRange ==
    /\ form.called => /\ form.overallScore \in 0..100
                      /\ form.depth >= 0 /\ form.depth <= 100000
    /\ (coach.called /\ ~coach.threw) => coach.overallScore \in 0..100

\* C8: on a pose that fails the validity gate analyzeForm returns overallScore
\* 0, depth 0, all angles 0, both alignment flags false and the single
\* feedback entry 'Cannot see full body clearly'.
C8_InvalidPoseResult ==
    (form.called /\ ~JointsVisible(inPose)) =>
        /\ form.overallScore = 0 /\ form.depth = 0
        /\ form.kneeAngle2 = 0 /\ form.hipAngle2 = 0 /\ form.torsoAngle2 = 0
        /\ ~form.kneeAlignment /\ ~form.kneesOverToes
        /\ form.feedback = <<"Cannot see full body clearly">>

\* scored: a pose with every joint present, one ankle of visibility 0, the
\* knees caved in and the torso leaning
C8_Witness ==
    /\ form.called
    /\ \A j \in Joints : inPose[j].present
    /\ inPose.RIGHT_ANKLE.visibility = 0
    /\ checkKneeCaveIn(inPose.LEFT_KNEE, inPose.RIGHT_KNEE,
                       inPose.LEFT_ANKLE, inPose.RIGHT_ANKLE)
    /\ form.overallScore = 0

\* C9: the validity gate returns valid iff each of the eight required joints
\* is present with visibility >= 0.7; a joint without a visibility value
\* counts as visibility 0, and a visibility of exactly 0.7 is accepted.
C9_ValidityGate ==
    gate.called =>
        /\ gate.valid <=> JointsVisible(inPose)
        /\ (\E j \in Joints : inPose[j].present /\ inPose[j].visibility = NoVisibility)
              => ~gate.valid
        /\ (\A j \in Joints : inPose[j].present /\ inPose[j].visibility \in {700, 1000})
              => gate.valid

\* the gate accepted a pose with a joint of visibility exactly 0.7
C9_Witness ==
    /\ gate.called /\ gate.valid
    /\ inPose.LEFT_ANKLE.visibility = 700

\* the gate rejected a pose whose only flaw is a joint without visibility
C9_UndefinedRejected ==
    /\ gate.called /\ ~gate.valid
    /\ inPose.LEFT_SHOULDER.present
    /\ inPose.LEFT_SHOULDER.visibility = NoVisibility

\* C10: for every progress value p, with k = interpolateKeyframes(
\* SQUAT_KEYFRAMES, p), analyzeFormAgainstCoach on the pose synthesized for k,
\* with k as the target, returns overallScore 100.
C10_RoundTripScore ==
    (source = "synthesized" /\ coach.called) =>
        /\ ~coach.threw
        /\ coach.overallScore = 100

\* the round trip at p = 0.5 scored 65
C10_Witness ==
    /\ source = "synthesized" /\ coach.called
    /\ keyframe.progress = 50
    /\ coach.overallScore = 65

\* the round trip at p = 0 scored 100
RoundTripAtRest ==
    /\ source = "synthesized" /\ coach.called
    /\ keyframe.progress = 0
    /\ coach.overallScore = 100

(***************************************************************************)
(* The session aggregator applied to the scores and the rep durations a    *)
(* session has collected.                                                  *)
(***************************************************************************)
MaxSessionScores == 3
MaxSessionDurations == 2
SessionScoreValues == {0, 55, 75, 100}
SessionDurationValues == {2000, 3000, 4000, 7000, 8000}

SessionStart ==
    /\ DetectorInit
    /\ script = NoScript
    /\ ScoreInit

sessionFrame == <<detVars, now, ret, last, histVars, script,
                  inPose, keyframe, source, gate, form, coach, voiceVars, geometry, twin, motion>>

\* formScoresRef.current.push(advancedAnalysis.overallScore)
PushScore ==
    /\ Len(sessionScores) < MaxSessionScores
    /\ \E score \in SessionScoreValues : sessionScores' = Append(sessionScores, score)
    /\ quality' = NoQuality
    /\ UNCHANGED <<sessionDurations, sessionFrame>>

\* repDurationsRef.current.push(repDuration)
PushDuration ==
    /\ Len(sessionDurations) < MaxSessionDurations
    /\ \E d \in SessionDurationValues : sessionDurations' = Append(sessionDurations, d)
    /\ quality' = NoQuality
    /\ UNCHANGED <<sessionScores, sessionFrame>>

CalculateMovementQuality ==
    /\ quality' = calculateMovementQuality(sessionScores, sessionDurations)
    /\ UNCHANGED <<sessionScores, sessionDurations, sessionFrame>>

SessionNext == PushScore \/ PushDuration \/ CalculateMovementQuality

SpecSession == SessionStart /\ [][SessionNext]_vars

\* C11: calculateMovementQuality on an empty formScores list, whatever
\* repDurations holds, returns without error averageForm 0, consistency 0,
\* tempo 'optimal' and a non-empty recommendation.
C11_EmptySessionDefined ==
    (quality.called /\ sessionScores = <<>>) =>
        /\ ~quality.threw
        /\ quality.averageForm = 0
        /\ quality.consistency = 0
        /\ quality.tempo = "optimal"
        /\ quality.recommendation # <<>>
        /\ \A i \in 1..Len(quality.recommendation) : quality.recommendation[i] # ""

\* aggregated: no score and two rep durations that average below 3000 ms
C11_Witness ==
    /\ quality.called /\ ~quality.threw
    /\ sessionScores = <<>>
    /\ sessionDurations = <<2000, 2000>>

\* the aggregate of scores 100, 100, 55: average 85, consistency 58
SessionAggregateExample ==
    (quality.called /\ sessionScores = <<100, 100, 55>>) =>
        (quality.averageForm = 85 /\ quality.consistency = 58)


(***************************************************************************)
(* The voice feedback queue as a state machine (SpecVoice).  addFeedback   *)
(* runs to its end without yielding (its call of processQueue runs         *)
(* synchronously up to the await of generateSpeech); the rest of a         *)
(* processQueue call runs once its speech promise has settled.  Speeches   *)
(* settle in any order and after any time.  The clock starts at            *)
(* THROTTLE_DURATION, from where an unseen message is never throttled, as  *)
(* with Date.now().                                                        *)
(***************************************************************************)
MaxQueue == 2
MaxInFlight == 2
MaxVoiceTicks == 3

Feedbacks ==
    { [message |-> "Step back so I can see your full body", priority |-> "critical"],
      [message |-> "Let's begin! I'll guide you through each rep", priority |-> "important"],
      [message |-> "Good depth", priority |-> "normal"] }

voiceState ==
    [queue |-> queue, isSpeaking |-> isSpeaking,
     lastSpokenMessages |-> lastSpokenMessages, inFlight |-> inFlight,
     started |-> NoFeedback]

\* the message a call started to speak and the time since its previous start
spokeAfter(st) ==
    IF st.started = NoFeedback THEN spoke
    ELSE [message |-> st.started.message,
          gap |-> IF st.started.message \in DOMAIN lastSpokenMessages
                  THEN now - lastSpokenMessages[st.started.message] ELSE -1]

VoiceStart ==
    /\ DetectorNew /\ script = NoScript
    /\ inPose = [j \in Joints |-> Absent] /\ keyframe = NoKeyframe
    /\ source = "camera" /\ gate = NoGate /\ form = NoForm /\ coach = NoCoach
    /\ SessionInit /\ VoiceQueueInit /\ geometry = NoGeometry /\ twin = NoTwin /\ motion = NoMotion
    /\ now = THROTTLE_DURATION

voiceFrame ==
    <<detVars, ret, last, histVars, script, inPose, keyframe, source, gate,
      form, coach, sessionVars, geometry, twin, motion>>

becomes(st) ==
    /\ queue' = st.queue
    /\ isSpeaking' = st.isSpeaking
    /\ lastSpokenMessages' = st.lastSpokenMessages
    /\ inFlight' = st.inFlight
    /\ spoke' = spokeAfter(st)

AddFeedbackFrom(feedbacks) ==
    \E feedback \in feedbacks :
        /\ Len(queue) < MaxQueue /\ Len(inFlight) < MaxInFlight
        /\ LET st == addFeedback(voiceState, feedback, now)
           IN  /\ becomes(st)
               /\ lastAdd' = [called |-> TRUE, feedback |-> feedback,
                              throttled |-> throttled(lastSpokenMessages, feedback.message, now),
                              wasSpeaking |-> isSpeaking,
                              started |-> st.started,
                              stillPlaying |-> inFlight]
        /\ UNCHANGED <<now, voiceFrame>>

AddFeedback == AddFeedbackFrom(Feedbacks)

SpeechEnds ==
    \E i \in 1..Len(inFlight) :
        /\ becomes(speechSettled(voiceState, i, now))
        /\ UNCHANGED <<lastAdd, now, voiceFrame>>

Clear ==
    /\ becomes(clear(voiceState))
    /\ UNCHANGED <<lastAdd, now, voiceFrame>>

VoiceTick ==
    /\ now < THROTTLE_DURATION + 1000 * MaxVoiceTicks
    /\ now' = now + 1000
    /\ UNCHANGED <<voiceVars, voiceFrame>>

VoiceNext == AddFeedback \/ SpeechEnds \/ Clear \/ VoiceTick

SpecVoice == VoiceStart /\ [][VoiceNext]_vars

\* C12: a critical feedback that is not throttled and is added while another
\* message is being spoken stops the current speech and is the message
\* started next, ahead of every non-critical message waiting in the queue.
C12_CriticalPreempts ==
    (/\ lastAdd.called /\ lastAdd.feedback.priority = "critical"
     /\ ~lastAdd.throttled /\ lastAdd.wasSpeaking)
        => /\ lastAdd.started = lastAdd.feedback
           /\ lastAdd.stillPlaying = <<>>

\* a critical feedback was accepted while a message was being spoken
C12_Witness ==
    /\ lastAdd.called /\ lastAdd.feedback.priority = "critical"
    /\ ~lastAdd.throttled /\ lastAdd.wasSpeaking
    /\ lastAdd.stillPlaying # <<>>

\* what holds of C12: the critical feedback is the message started by the call
CriticalStartsAtOnce ==
    (/\ lastAdd.called /\ lastAdd.feedback.priority = "critical"
     /\ ~lastAdd.throttled)
        => lastAdd.started = lastAdd.feedback

\* no critical feedback ever waits in the queue
NoCriticalWaits == \A i \in 1..Len(queue) : queue[i].priority # "critical"

\* C13: the same message text is never started to be spoken twice less than
\* THROTTLE_DURATION ms apart.
C13_ThrottledStarts ==
    (spoke.message # "" /\ spoke.gap # -1) => spoke.gap >= THROTTLE_DURATION

\* a message was started again after an earlier start of the same text
C13_Witness == spoke.message # "" /\ spoke.gap # -1

\* what holds of C13: a feedback is accepted by addFeedback only
\* THROTTLE_DURATION ms or more after the last start of its text
AcceptedAfterCooldown ==
    [][ (lastAdd' # lastAdd /\ ~lastAdd'.throttled)
          => now - lastSpokenOf(lastSpokenMessages, lastAdd'.feedback.message)
                >= THROTTLE_DURATION ]_vars


(***************************************************************************)
(* The geometry kernel applied to landmarks of a grid (SpecGeometry): the  *)
(* run starts with four landmarks, present or absent, and calls one        *)
(* function of the kernel on as many of them as it takes.                  *)
(***************************************************************************)
Coords == {0, 300, 500, 1000}
Landmarks == {Absent} \cup {createLandmark(x, y) : x \in Coords, y \in Coords}

GeometryStart ==
    /\ DetectorInit /\ script = NoScript
    /\ SessionInit /\ VoiceQueueInit /\ twin = NoTwin /\ motion = NoMotion
    /\ inPose = [j \in Joints |-> Absent] /\ keyframe = NoKeyframe
    /\ source = "camera" /\ gate = NoGate /\ form = NoForm /\ coach = NoCoach
    /\ \E a \in Landmarks, b \in Landmarks, c \in Landmarks, d \in Landmarks :
          geometry = [called |-> FALSE, args |-> <<a, b, c, d>>]

geometryFrame ==
    <<detVars, now, ret, last, histVars, script, inPose, keyframe, source,
      gate, form, coach, sessionVars, voiceVars, twin, motion>>

Call(fn, arity) ==
    /\ ~geometry.called
    /\ geometry' = kernelCall(fn, SubSeq(geometry.args, 1, arity))
    /\ UNCHANGED geometryFrame

CalculateAngle == Call("calculateAngle", 3)
CalculateKneeAngle == Call("calculateKneeAngle", 3)
CalculateHipAngle == Call("calculateHipAngle", 3)
CalculateTorsoAngle == Call("calculateTorsoAngle", 2)
CheckKneeCaveIn == Call("checkKneeCaveIn", 4)
CheckKneesOverToes == Call("checkKneesOverToes", 2)

GeometryNext ==
    \/ CalculateAngle \/ CalculateKneeAngle \/ CalculateHipAngle
    \/ CalculateTorsoAngle \/ CheckKneeCaveIn \/ CheckKneesOverToes

SpecGeometry == GeometryStart /\ [][GeometryNext]_vars

AngleFns == {"calculateAngle", "calculateKneeAngle", "calculateHipAngle"}

\* C14: calculateAngle(a, b, c) returns a value in [0, 180] degrees for all
\* present landmarks a, b, c and returns 0 whenever one of the three is absent.
C14_AngleRange ==
    (geometry.called /\ geometry.fn = "calculateAngle")
        => /\ ~geometry.threw
           /\ geometry.value \in 0..Deg(180)
           /\ anyAbsent(geometry.args) => geometry.value = 0

\* calculateAngle folded an arctangent difference above 180 degrees
C14_Witness ==
    /\ geometry.called /\ geometry.fn = "calculateAngle"
    /\ ~anyAbsent(geometry.args)
    /\ calculateAngleUnfolded(geometry.args[1], geometry.args[2], geometry.args[3]) > Deg(180)
    /\ geometry.value = Deg(90)

\* calculateAngle returned 0 for an absent landmark
AngleOfAbsentLandmark ==
    /\ geometry.called /\ geometry.fn = "calculateAngle"
    /\ anyAbsent(geometry.args) /\ geometry.value = 0

\* C15: every function of the geometry kernel called with one or more absent
\* landmarks returns its zero or false fallback and never raises an error.
C15_AbsentFallback ==
    (geometry.called /\ anyAbsent(geometry.args))
        => /\ ~geometry.threw
           /\ geometry.fn \in AngleFns \cup {"calculateTorsoAngle"} => geometry.value = 0
           /\ geometry.fn \in {"checkKneeCaveIn", "checkKneesOverToes"} => geometry.value = FALSE

\* calculateTorsoAngle raised a TypeError on an absent shoulder
C15_Witness ==
    /\ geometry.called /\ geometry.fn = "calculateTorsoAngle"
    /\ ~geometry.args[1].present /\ geometry.args[2].present
    /\ geometry.threw

\* what holds of C15: the three angle functions return 0, the other three
\* functions raise a TypeError
AbsentFallbackOfAngles ==
    (geometry.called /\ anyAbsent(geometry.args))
        => IF geometry.fn \in AngleFns THEN ~geometry.threw /\ geometry.value = 0
           ELSE geometry.threw


(***************************************************************************)
(* The detector fed with frames at its knee thresholds (SpecBoundary):     *)
(* knee angles of exactly 170, 100 and 90 degrees beside angles on either  *)
(* side of them, with the hip at one of two heights.  inPose is the frame  *)
(* of the latest call.                                                     *)
(***************************************************************************)
Knee170 == [dx |-> 70, dy |-> -397]
Knee100 == [dx |-> 397, dy |-> -70]
Knee90 == [dx |-> 250, dy |-> 0]

BoundaryThighs == {Knee175, Knee170, Knee165, Knee100, Knee90, Knee85}
BoundaryHipYs == {300, 0}
BoundaryFrames == {MkFrame(h, t) : h \in BoundaryHipYs, t \in BoundaryThighs}

DetectPhaseAtBoundary ==
    /\ repCount < MaxReps
    /\ phaseFrameCount < MaxFrameCount
    /\ \E pose \in BoundaryFrames :
          /\ Feed(pose)
          /\ crossRun' = crossRunAfter(pose)
          /\ inPose' = pose
    /\ UNCHANGED <<now, script, keyframe, source, gate, form, coach,
                   sessionVars, voiceVars, geometry, twin, motion>>

BoundaryTick ==
    /\ now < MaxTime
    /\ now' = now + 1
    /\ UNCHANGED <<detVars, ret, last, histVars, script, scoreVars>>

BoundaryNext == DetectPhaseAtBoundary \/ Reset \/ BoundaryTick

SpecBoundary == Init /\ [][BoundaryNext]_vars

\* the bilateral average knee angle of the latest frame, in degrees, is
\* exactly d
KneeAngleIs(d) == avgKneeAngle2(inPose) = 2 * Deg(d)

\* C18: each transition fires only on a frame whose average knee angle
\* satisfies its threshold: Standing to Descending below 170 degrees,
\* Descending to Bottom below 90, Bottom to Ascending above 100, Ascending
\* to Standing above 170; an angle equal to the threshold never triggers it.
C18_TransitionThresholds ==
    [][ (last'.op = "detectPhase" /\ phase' # phase) =>
          LET knee2 == avgKneeAngle2(inPose')
          IN  /\ phase = "standing" => (phase' = "descending" /\ knee2 < 2 * 170000)
              /\ phase = "descending" => (phase' = "bottom" /\ knee2 < 2 * 90000)
              /\ phase = "bottom" => (phase' = "ascending" /\ knee2 > 2 * 100000)
              /\ phase = "ascending" => (phase' = "standing" /\ knee2 > 2 * 170000)
      ]_vars

\* a frame at exactly 170 degrees was fed in Ascending after the debounce
\* and the phase was held
C18_Witness ==
    /\ last.op = "detectPhase" /\ last.valid
    /\ phase = "ascending" /\ callsInPhase > DEBOUNCE_FRAMES
    /\ KneeAngleIs(170)

\* the phase was held on frames at exactly 170, 90 and 100 degrees in
\* Standing, Descending and Bottom
HeldAtStandingThreshold ==
    /\ last.op = "detectPhase" /\ phase = "standing"
    /\ callsInPhase > DEBOUNCE_FRAMES /\ KneeAngleIs(170)

HeldAtBottomThreshold ==
    /\ last.op = "detectPhase" /\ phase = "descending"
    /\ callsInPhase > DEBOUNCE_FRAMES /\ KneeAngleIs(90)
    /\ descentReached(highestHipHeight, lowestHipHeight)

HeldAtAscentThreshold ==
    /\ last.op = "detectPhase" /\ phase = "bottom"
    /\ callsInPhase > DEBOUNCE_FRAMES /\ KneeAngleIs(100)

\* C16: a transition commits in a detectPhase call only if the knee threshold
\* of the current phase held on each of the last DEBOUNCE_FRAMES + 1 valid
\* frames in a row (the DEBOUNCE_FRAMES before the call and the frame of the
\* call); one crossing frame after a run of frames that do not cross never
\* causes a transition.
C16_ConsecutiveDebounce ==
    [][ (last'.op = "detectPhase" /\ phase' # phase)
          => crossRun >= DEBOUNCE_FRAMES ]_vars

\* what holds of C16: the frame of a transition is at least the
\* (DEBOUNCE_FRAMES + 1)-th valid frame since the phase was entered
TransitionAfterFramesInPhase ==
    [][ (last'.op = "detectPhase" /\ phase' # phase)
          => callsInPhase >= DEBOUNCE_FRAMES ]_vars

\* the step is a detectPhase call: it is no reset, and unlike a clock tick or
\* addFormScore it leaves the time and adds no form score
DetectPhaseStep ==
    /\ last'.op = "detectPhase"
    /\ now' = now
    /\ Len(formScores') <= Len(formScores)

\* C19: detectPhase returns repCompleted = true exactly in the calls that
\* perform the Ascending to Standing transition with the travel condition
\* satisfied; such a call adds 1 to repCount, returns the phase Standing and
\* a repDuration equal to the current time less the time recorded at the
\* cycle's Standing to Descending transition (repStartTime is written by that
\* transition and by no other call); every other call returns repCompleted =
\* false and repDuration = 0 and leaves repCount unchanged.
C19_RepCompletedReport ==
    [][ DetectPhaseStep =>
          /\ ret'.repCompleted <=>
                /\ phase = "ascending" /\ phase' = "standing"
                /\ CompletedExcursion2 >= 2 * MIN_DESCENT_DISTANCE
          /\ ret'.repCompleted =>
                /\ repCount' = repCount + 1
                /\ ret'.phase = "standing"
                /\ ret'.repDuration = now - repStartTime
          /\ ~ret'.repCompleted =>
                /\ repCount' = repCount
                /\ ret'.repDuration = 0
          /\ (phase = "standing" /\ phase' = "descending") => repStartTime' = now
          /\ repStartTime' # repStartTime =>
                (phase = "standing" /\ phase' = "descending") ]_vars

\* a rep was reported complete one time unit after its cycle had started
C19_Witness ==
    /\ last.op = "detectPhase" /\ ret.repCompleted
    /\ ret.phase = "standing" /\ ret.repDuration = 1 /\ repStartTime = 1 /\ now = 2

C21_HighestHipCapture ==
    [][ DetectPhaseStep =>
          /\ (phase = "standing" /\ phase' = "descending") =>
                highestHipHeight' = hipHeight2(inPose')
          /\ (phase = "ascending" /\ phase' = "standing") =>
                highestHipHeight' = hipHeight2(inPose')
          /\ highestHipHeight' # highestHipHeight =>
                \/ phase = "standing" /\ phase' = "descending"
                \/ phase = "ascending" /\ phase' = "standing" ]_vars

\* the first frame of a new detector, held in Standing, was captured
C21_Witness ==
    /\ last.op = "detectPhase" /\ phase = "standing" /\ phaseTrace = <<"standing">>
    /\ callsInPhase = 1 /\ repCount = 0
    /\ highestHipHeight = 600 /\ hipHeight2(inPose) = 600

\* what holds of C21: a detectPhase call changes highestHipHeight only when
\* the field is 0 (to the hip height of the frame) and at the Ascending to
\* Standing transition (to the hip height of the frame); the Standing to
\* Descending transition leaves a non-zero value as it is
HighestHipCapturedWhenZero ==
    [][ DetectPhaseStep =>
          /\ (phase = "ascending" /\ phase' = "standing") =>
                highestHipHeight' = hipHeight2(inPose')
          /\ ~(phase = "ascending" /\ phase' = "standing") =>
                highestHipHeight' = IF highestHipHeight = 0 THEN hipHeight2(inPose')
                                    ELSE highestHipHeight ]_vars

\* C22: in every reachable state phaseFrameCount is the number of valid
\* frames processed since the last transition or reset: a call on a valid
\* frame that does not transition adds exactly 1, a call that transitions
\* leaves it at 0 (and a call on an invalid frame leaves it).
C22_FrameCountSinceTransition ==
    /\ [](phaseFrameCount = callsInPhase)
    /\ [][ DetectPhaseStep =>
             phaseFrameCount' = IF ~last'.valid THEN phaseFrameCount
                                ELSE IF phase' # phase THEN 0
                                ELSE phaseFrameCount + 1 ]_vars

\* five valid frames were counted in Bottom, the latest call being on an
\* invalid frame
C22_Witness ==
    /\ last.op = "detectPhase" /\ ~last.valid
    /\ phase = "bottom" /\ phaseFrameCount = 5 /\ callsInPhase = 5

(***************************************************************************)
(* reset() in the middle of a run (SpecReset): beside the detector runs a  *)
(* newly constructed detector, twin, started when reset() is called and    *)
(* fed every frame the detector is fed from then on.  inPose is the frame  *)
(* of the latest call.                                                     *)
(***************************************************************************)
detectorFields ==
    [phase |-> phase, repCount |-> repCount, lowestHipHeight |-> lowestHipHeight,
     highestHipHeight |-> highestHipHeight, phaseFrameCount |-> phaseFrameCount]

resetFrame ==
    <<script, keyframe, source, gate, form, coach, sessionVars, voiceVars,
      geometry, crossRun>>

DetectPhaseBesideTwin ==
    /\ repCount < MaxReps
    /\ \E pose \in Frames :
          /\ isPoseValid(pose) => phaseFrameCount < MaxFrameCount
          /\ Feed(pose)
          /\ inPose' = pose
          /\ twin' = IF twin.live
                     THEN [live |-> TRUE, fields |-> detectPhaseOf(twin.fields, pose)]
                     ELSE twin
    /\ UNCHANGED <<now, resetFrame, motion>>

ResetBesideTwin ==
    /\ ResetCall
    /\ twin' = [live |-> TRUE, fields |-> newDetector]
    /\ UNCHANGED <<now, inPose, resetFrame, motion>>

ResetTick ==
    /\ now < MaxTime
    /\ now' = now + 1
    /\ UNCHANGED <<detVars, ret, last, histVars, script, scoreVars>>

ResetNext == DetectPhaseBesideTwin \/ ResetBesideTwin \/ ResetTick

SpecReset == Init /\ [][ResetNext]_vars

\* C23: reset() leaves phase = Standing, repCount = 0, phaseFrameCount = 0,
\* lowestHipHeight = 1, highestHipHeight = 0, repStartTime = 0 and formScores
\* empty, from any state; from then on the detector reports, on any frames,
\* the phase and rep count a newly constructed detector reports on them.
C23_ResetLikeNew ==
    /\ [][ (last'.op = "reset" /\ last.op # "reset") =>
             /\ phase' = "standing" /\ repCount' = 0 /\ phaseFrameCount' = 0
             /\ lowestHipHeight' = 2000 /\ highestHipHeight' = 0
             /\ repStartTime' = 0 /\ formScores' = <<>> ]_vars
    /\ [](twin.live =>
             /\ phase = twin.fields.phase /\ repCount = twin.fields.repCount
             /\ last.op = "detectPhase" => ret.phase = twin.fields.phase)

\* reset() was called at time 2; the detector has since completed a rep
\* beside the twin and entered Descending again
C23_Witness ==
    /\ twin.live /\ twin.fields.repCount = 1 /\ repCount = 1
    /\ phase = "descending" /\ startTime = 2

\* the functional form agrees with detectPhase on every call
DetectPhaseOfAgrees ==
    [][ DetectPhaseStep => detectorFields' = detectPhaseOf(detectorFields, inPose') ]_vars

(***************************************************************************)
(* Further properties of the basic scorer, stated over SpecForm.  Larger y *)
(* is lower on screen: the hip is above the knees when its y is smaller.   *)
(***************************************************************************)
kneeHeight2(pose) == pose.LEFT_KNEE.y + pose.RIGHT_KNEE.y

Scored == form.called /\ JointsVisible(inPose)

\* the issues as the specification words them
DepthInsufficient ==
    phase \in {"bottom", "descending"} /\ hipHeight2(inPose) < kneeHeight2(inPose)

KneeCaveIn ==
    checkKneeCaveIn(inPose.LEFT_KNEE, inPose.RIGHT_KNEE,
                    inPose.LEFT_ANKLE, inPose.RIGHT_ANKLE)

KneeOverToe ==
    \/ checkKneesOverToes(inPose.LEFT_KNEE, inPose.LEFT_ANKLE)
    \/ checkKneesOverToes(inPose.RIGHT_KNEE, inPose.RIGHT_ANKLE)

TorsoLean == form.torsoAngle2 > 2 * Deg(30)

HipAngleLow == form.hipAngle2 < 2 * Deg(30) /\ phase = "bottom"

\* the depth test as the code makes it: the hip y above the knee y, that is
\* the hip lower on screen than the knees
DepthTestAsCoded ==
    phase \in {"bottom", "descending"} /\ hipHeight2(inPose) > kneeHeight2(inPose)

Deductions(depthIssue) ==
    (IF depthIssue THEN 15 ELSE 0) + (IF KneeCaveIn THEN 20 ELSE 0)
    + (IF KneeOverToe THEN 15 ELSE 0) + (IF TorsoLean THEN 15 ELSE 0)
    + (IF HipAngleLow THEN 10 ELSE 0)

\* C24: for a valid pose analyzeForm's overallScore is 100 less the fixed
\* deductions of exactly the issues that triggered: insufficient depth in
\* Bottom or Descending (15), knee cave-in (20), knee over toe on either side
\* (15), torso lean above 30 degrees (15), hip angle below 30 degrees in
\* Bottom (10).
C24_AdditiveDeductions ==
    Scored => form.overallScore = 100 - Deductions(DepthInsufficient)

\* a pose in Descending with the hip below the knees and no other issue lost
\* the 15 points of the depth deduction
C24_Witness ==
    /\ Scored /\ phase = "descending"
    /\ hipHeight2(inPose) > kneeHeight2(inPose)
    /\ ~KneeCaveIn /\ ~KneeOverToe /\ ~TorsoLean /\ ~HipAngleLow
    /\ form.overallScore = 85

\* what holds of C24: the score is 100 less the deductions, the depth
\* deduction being applied when the hip is lower than the knees
DeductionsAsCoded ==
    Scored => form.overallScore = 100 - Deductions(DepthTestAsCoded)

\* the feedback strings in the order of the checks, and their deductions
CheckOrder ==
    << "Go deeper - hips below knees", "Push knees outward",
       "Keep knees behind toes", "Keep chest up", "Engage hips more" >>

DeductionOf(message) ==
    CASE message = "Go deeper - hips below knees" -> 15
      [] message = "Push knees outward" -> 20
      [] message = "Keep knees behind toes" -> 15
      [] message = "Keep chest up" -> 15
      [] message = "Engage hips more" -> 10

Said(message) == \E i \in 1..Len(form.feedback) : form.feedback[i] = message

RECURSIVE DeductionsSaid(_)
DeductionsSaid(feedback) ==
    IF feedback = <<>> THEN 0
    ELSE DeductionOf(Head(feedback)) + DeductionsSaid(Tail(feedback))

\* C25: for a valid pose the feedback list holds one string per triggered
\* deduction and no other, in the order of the checks (depth, knee cave-in,
\* knee over toe, torso lean, hip angle); kneeAlignment is false iff the
\* cave-in entry is present and kneesOverToes is true iff the over-toe entry
\* is.
C25_FeedbackPerDeduction ==
    Scored =>
        /\ form.feedback = SelectSeq(CheckOrder, Said)
        /\ 100 - form.overallScore = DeductionsSaid(form.feedback)
        /\ Said("Push knees outward") <=> KneeCaveIn
        /\ Said("Keep knees behind toes") <=> KneeOverToe
        /\ Said("Keep chest up") <=> TorsoLean
        /\ Said("Engage hips more") <=> HipAngleLow
        /\ ~form.kneeAlignment <=> Said("Push knees outward")
        /\ form.kneesOverToes <=> Said("Keep knees behind toes")

\* the depth entry and the cave-in entry were both given, in this order,
\* with two more entries after them
C25_Witness ==
    /\ Scored /\ Len(form.feedback) >= 4
    /\ form.feedback[1] = "Go deeper - hips below knees"
    /\ form.feedback[2] = "Push knees outward"
    /\ ~form.kneeAlignment

DepthDeducted == Said("Go deeper - hips below knees")

\* C26: the depth deduction ('Go deeper', 15 points) is applied only when the
\* depth is insufficient: never to a pose whose hip is at or below knee
\* height (hip y >= knee y, larger y being lower), and whenever it is applied
\* the returned depth is below 100.
C26_DepthDeductionOnlyWhenShallow ==
    Scored /\ DepthDeducted =>
        /\ hipHeight2(inPose) < kneeHeight2(inPose)
        /\ form.depth < 100000

\* the deduction applied to a pose with the hip below the knees and the
\* returned depth 100
C26_Witness ==
    /\ Scored /\ DepthDeducted
    /\ hipHeight2(inPose) > kneeHeight2(inPose)
    /\ form.depth = 100000

\* what holds of C26: the deduction is applied exactly in Bottom or
\* Descending to a pose whose hip y is larger than its knee y
DepthDeductionAsCoded == Scored => (DepthDeducted <=> DepthTestAsCoded)

Coincide(p, q) == p.x = q.x /\ p.y = q.y

AngleCalled ==
    /\ geometry.called /\ geometry.fn = "calculateAngle"
    /\ ~anyAbsent(geometry.args)

\* C27: calculateAngle(a, b, c) returns 0 whenever a segment has zero length,
\* that is whenever a coincides with b or c coincides with b in x and y,
\* wherever the third landmark is.
C27_DegenerateAngleZero ==
    (/\ AngleCalled
     /\ \/ Coincide(geometry.args[1], geometry.args[2])
        \/ Coincide(geometry.args[3], geometry.args[2]))
        => geometry.value = 0

\* a coincides with b and c lies straight below b (larger y): 90 degrees
C27_Witness ==
    /\ AngleCalled
    /\ Coincide(geometry.args[1], geometry.args[2])
    /\ geometry.args[3].x = geometry.args[2].x
    /\ geometry.args[3].y > geometry.args[2].y
    /\ geometry.value = Deg(90)

\* what holds of C27: the zero-length segment counts as pointing along the
\* positive x axis (atan2(0, 0) = 0), so the result is the angle between
\* the other segment and that axis, and 0 only when both segments have zero
\* length or the other one points along the positive x axis
DegenerateAngleAsCoded ==
    AngleCalled =>
        LET a == geometry.args[1]
            b == geometry.args[2]
            c == geometry.args[3]
        IN  /\ Coincide(a, b) => geometry.value = Abs(atan2(c.y - b.y, c.x - b.x))
            /\ Coincide(c, b) => geometry.value = Abs(atan2(a.y - b.y, a.x - b.x))
            /\ Coincide(a, b) /\ Coincide(c, b) => geometry.value = 0

\* C28: analyzeFormAgainstCoach called with a user pose that fails the
\* validity gate (a required joint absent or of visibility below 0.7)
\* returns a degraded result of overallScore 0; it raises no error and scores
\* no angle of the untrusted landmarks.
C28_CoachGate ==
    (coach.called /\ ~JointsVisible(inPose)) =>
        /\ ~coach.threw
        /\ coach.overallScore = 0

\* a pose with every joint present and one of visibility below 0.7 was
\* scored as a visible pose is, above 0
C28_Witness ==
    /\ coach.called /\ ~JointsVisible(inPose)
    /\ \A j \in Joints : inPose[j].present
    /\ ~coach.threw /\ coach.overallScore > 0

\* what holds of C28: the call raises exactly when a joint is absent, and
\* the result for a pose of present joints does not depend on visibility
CoachUngated ==
    coach.called =>
        /\ coach.threw <=> \E j \in Joints : ~inPose[j].present
        /\ ~coach.threw =>
             coach = analyzeFormAgainstCoach(
                         [j \in Joints |-> [inPose[j] EXCEPT !.visibility = 1000]],
                         generateBiomechanicalSquatPose(keyframe), keyframe)

userKneeAngle2 ==
    calculateKneeAngle(inPose.LEFT_HIP, inPose.LEFT_KNEE, inPose.LEFT_ANKLE)
    + calculateKneeAngle(inPose.RIGHT_HIP, inPose.RIGHT_KNEE, inPose.RIGHT_ANKLE)

userHipAngle2 ==
    calculateHipAngle(inPose.LEFT_SHOULDER, inPose.LEFT_HIP, inPose.LEFT_KNEE)
    + calculateHipAngle(inPose.RIGHT_SHOULDER, inPose.RIGHT_HIP, inPose.RIGHT_KNEE)

userTorsoAngle2 ==
    calculateTorsoAngle(inPose.LEFT_SHOULDER, inPose.LEFT_HIP)
    + calculateTorsoAngle(inPose.RIGHT_SHOULDER, inPose.RIGHT_HIP)

\* round(max(0, 100 - n/d x |user angle - target angle|)), the user angle
\* given as the sum of its two sides
ScoreByDifference(n, d, userAngle2, targetAngle) ==
    RoundDiv(Max(0, 2000 * d * 100 - n * Abs(userAngle2 - 2 * targetAngle)), 2000 * d)

CoachReturned == coach.called /\ ~coach.threw

\* C29 as stated: each per-joint score (kneeScore, hipScore, torsoScore) is
\* max(0, 100 - 2 x |user angle - target keyframe angle|), rounded to the
\* nearest integer.
C29_JointScoresDoubled ==
    CoachReturned =>
        /\ coach.kneeScore = ScoreByDifference(2, 1, userKneeAngle2, keyframe.kneeAngle)
        /\ coach.hipScore = ScoreByDifference(2, 1, userHipAngle2, keyframe.hipAngle)
        /\ coach.torsoScore = ScoreByDifference(2, 1, userTorsoAngle2, keyframe.torsoAngle)

\* C29 amended: kneeScore and hipScore are max(0, 100 - 2 x |user angle -
\* target keyframe angle|) and torsoScore is max(0, 100 - 2.5 x |user torso
\* angle - target torso angle|), each rounded to the nearest integer.
C29_JointScores ==
    CoachReturned =>
        /\ coach.kneeScore = ScoreByDifference(2, 1, userKneeAngle2, keyframe.kneeAngle)
        /\ coach.hipScore = ScoreByDifference(2, 1, userHipAngle2, keyframe.hipAngle)
        /\ coach.torsoScore = ScoreByDifference(5, 2, userTorsoAngle2, keyframe.torsoAngle)

\* a torso 20 degrees or more off the target but less than 40: the score is
\* above 0 and below what the factor 2 gives; knee and hip scores off 100
C29_Witness ==
    /\ CoachReturned
    /\ Abs(userTorsoAngle2 - 2 * keyframe.torsoAngle) >= 2 * Deg(20)
    /\ coach.torsoScore > 0
    /\ coach.torsoScore < ScoreByDifference(2, 1, userTorsoAngle2, keyframe.torsoAngle)
    /\ coach.kneeScore \in 1..99
    /\ coach.hipScore \in 1..99

\* the points taken off the score with each feedback item
CoachDeductionOf(item) ==
    CASE item.message = "Go deeper - hips must drop below knees" -> 20
      [] item.message = "Push knees outward - prevent knee cave" -> 20
      [] item.message = "Knees tracking too far forward" -> 10
      [] item.joint = "balance" -> 8
      [] item.joint = "knee" /\ item.severity = "critical" -> 15
      [] item.joint = "knee" /\ item.severity = "warning" -> 8
      [] item.joint = "hip" /\ item.severity = "critical" -> 12
      [] item.joint = "hip" /\ item.severity = "warning" -> 6
      [] item.joint = "torso" /\ item.severity = "critical" -> 15
      [] item.joint = "torso" /\ item.severity = "warning" -> 8

RECURSIVE CoachDeductions(_)
CoachDeductions(feedback) ==
    IF feedback = <<>> THEN 0
    ELSE CoachDeductionOf(Head(feedback)) + CoachDeductions(Tail(feedback))

DepthFeedback ==
    \E i \in 1..Len(coach.feedback) :
        coach.feedback[i].message = "Go deeper - hips must drop below knees"

OutsideDepthWindow == keyframe.progress <= 40 \/ keyframe.progress >= 60

\* C30: the 'not deep enough' check is made only for a target keyframe whose
\* progress is strictly between 0.4 and 0.6: for progress <= 0.4 or >= 0.6
\* depthScore is 100, no depth feedback is given and no depth deduction is
\* applied (the score is 100 less the deductions of the other feedback
\* items), wherever the user's hips and knees are.
C30_DepthWindow ==
    (CoachReturned /\ OutsideDepthWindow) =>
        /\ coach.depthScore = 100
        /\ ~DepthFeedback
        /\ coach.overallScore = 100 - CoachDeductions(coach.feedback)

\* a pose of the camera with the hips not below the knees, compared with a
\* keyframe on the upper end of the window
C30_Witness ==
    /\ CoachReturned /\ source = "camera"
    /\ keyframe.progress = 60
    /\ hipHeight2(inPose) > kneeHeight2(inPose)
    /\ coach.depthScore = 100

\* inside the window the check is made: hips not below the knees get the
\* depth feedback and its 20 points off, hips below the knees do not
DepthCheckedInsideWindow ==
    (CoachReturned /\ ~OutsideDepthWindow) =>
        /\ DepthFeedback <=> hipHeight2(inPose) >= kneeHeight2(inPose)
        /\ ~DepthFeedback => coach.depthScore = 100
        /\ coach.overallScore = 100 - CoachDeductions(coach.feedback)

\* the place of a feedback item's check in the order the checks run: knee
\* angle, hip angle, torso, depth, knee cave, knees over toes, balance
CheckRankOf(item) ==
    CASE item.message = "Go deeper - hips must drop below knees" -> 4
      [] item.message = "Push knees outward - prevent knee cave" -> 5
      [] item.message = "Knees tracking too far forward" -> 6
      [] item.joint = "balance" -> 7
      [] item.joint = "knee" -> 1
      [] item.joint = "hip" -> 2
      [] item.joint = "torso" -> 3

\* C31: the feedback list of analyzeFormAgainstCoach is ranked by severity:
\* every critical item precedes every warning item, which precedes every
\* info item, and items of equal severity keep the order in which their
\* checks ran (knee, hip, torso, depth, knee cave, knees over toes, balance).
C31_FeedbackRankedBySeverity ==
    CoachReturned =>
        \A i, j \in 1..Len(coach.feedback) :
            i < j =>
                /\ severityOrder(coach.feedback[i]) <= severityOrder(coach.feedback[j])
                /\ severityOrder(coach.feedback[i]) = severityOrder(coach.feedback[j])
                     => CheckRankOf(coach.feedback[i]) < CheckRankOf(coach.feedback[j])

\* a warning of the first check (knee angle) was moved behind two critical
\* items of later checks, which kept their order
C31_Witness ==
    /\ CoachReturned /\ Len(coach.feedback) >= 4
    /\ coach.feedback[1].severity = "critical"
    /\ coach.feedback[2].severity = "critical"
    /\ \E i \in 3..Len(coach.feedback) :
        /\ coach.feedback[i].severity = "warning"
        /\ CheckRankOf(coach.feedback[i]) = 1

BothScored == Scored /\ CoachReturned

\* C32: the advanced scorer applies the critical-alignment checks of the
\* basic scorer: for every valid pose analyzeFormAgainstCoach's
\* alignment.kneeValgus is the negation of analyzeForm's kneeAlignment and
\* its alignment.kneesOverToes is analyzeForm's kneesOverToes.
C32_SameAlignmentChecks ==
    BothScored =>
        /\ coach.alignment.kneeValgus = ~form.kneeAlignment
        /\ coach.alignment.kneesOverToes = form.kneesOverToes

\* knees 0.15 apart over ankles 0.17 apart (ratio 0.88): caved in for the
\* basic scorer, no valgus for the advanced one
C32_Witness ==
    /\ BothScored
    /\ Abs(inPose.LEFT_KNEE.x - inPose.RIGHT_KNEE.x) = 150
    /\ Abs(inPose.LEFT_ANKLE.x - inPose.RIGHT_ANKLE.x) = 170
    /\ ~form.kneeAlignment
    /\ ~coach.alignment.kneeValgus

\* the right knee more than 0.05 outside its ankle: over the toes for the
\* basic scorer, not for the advanced one
KneesOverToesDiffer ==
    /\ BothScored
    /\ inPose.RIGHT_KNEE.x > inPose.RIGHT_ANKLE.x + 50
    /\ form.kneesOverToes
    /\ ~coach.alignment.kneesOverToes

\* what holds of C32: the advanced valgus test (ratio 0.8) is the stricter
\* one, the two scorers agree on the left knee, and they test the right
\* knee on opposite sides of the ankle
AlignmentChecksAsCoded ==
    BothScored =>
        /\ coach.alignment.kneeValgus => ~form.kneeAlignment
        /\ coach.alignment.kneeValgus <=>
             10 * Abs(inPose.LEFT_KNEE.x - inPose.RIGHT_KNEE.x)
                < 8 * Abs(inPose.LEFT_ANKLE.x - inPose.RIGHT_ANKLE.x)
        /\ form.kneesOverToes <=>
             \/ inPose.LEFT_KNEE.x > inPose.LEFT_ANKLE.x + 50
             \/ inPose.RIGHT_KNEE.x > inPose.RIGHT_ANKLE.x + 50
        /\ coach.alignment.kneesOverToes <=>
             \/ inPose.LEFT_KNEE.x > inPose.LEFT_ANKLE.x + 50
             \/ inPose.RIGHT_KNEE.x < inPose.RIGHT_ANKLE.x - 50

(***************************************************************************)
(* The clock of the reference motion (SpecMotion): calculateSquatProgress  *)
(* is called with a timestamp in milliseconds and a cycle duration, the    *)
(* default of 6000 ms among them.                                          *)
(***************************************************************************)
MaxTimestamp == 450
DefaultCycle == 6000
CycleDurations == {50, 100, 200, DefaultCycle}
\* every millisecond of the short cycles, the default cycle by hundredths,
\* and the milliseconds on both sides of the ends of its pause window
Timestamps ==
    0..MaxTimestamp
    \cup {60 * k : k \in 0..250}
    \cup {DefaultCycle + b : b \in {2999, 3000, 3479, 3480, 5999}}

MotionStart ==
    /\ DetectorInit /\ script = NoScript
    /\ SessionInit /\ VoiceQueueInit /\ geometry = NoGeometry /\ twin = NoTwin
    /\ inPose = [j \in Joints |-> Absent] /\ keyframe = NoKeyframe
    /\ source = "camera" /\ gate = NoGate /\ form = NoForm /\ coach = NoCoach
    /\ motion = NoMotion

motionFrame ==
    <<detVars, now, ret, last, histVars, script, inPose, keyframe, source,
      gate, form, coach, sessionVars, voiceVars, geometry, twin>>

CalculateSquatProgress ==
    /\ \E timestamp \in Timestamps, cycleDuration \in CycleDurations :
        motion' = [called |-> TRUE, fn |-> "calculateSquatProgress",
                   timestamp |-> timestamp, cycleDuration |-> cycleDuration,
                   value |-> calculateSquatProgress(timestamp, cycleDuration)]
    /\ UNCHANGED motionFrame

\* progress values in hundredths, some below 0 and above 1
ProgressInputs == -2..102

InterpolateKeyframes ==
    /\ \E progress \in ProgressInputs :
        motion' = [called |-> TRUE, fn |-> "interpolateKeyframes",
                   progress |-> progress,
                   value |-> interpolateKeyframes(SQUAT_KEYFRAMES, progress)]
    /\ UNCHANGED motionFrame

MotionNext == CalculateSquatProgress \/ InterpolateKeyframes

SpecMotion == MotionStart /\ [][MotionNext]_vars

ProgressCalled == motion.called /\ motion.fn = "calculateSquatProgress"

\* the time into the cycle of the last call
CycleTime == motion.timestamp % motion.cycleDuration

\* C33: for every timestamp >= 0 and cycle duration D > 0
\* calculateSquatProgress returns a value in [0, 1] that depends only on
\* timestamp mod D, does not decrease with the cycle time, rises linearly
\* from 0 to 0.5 over the first half of the cycle, is exactly 0.5 in the
\* pause window [0.5 D, 0.58 D) and rises linearly from 0.5 towards 1 over
\* the remaining 0.42 D.
C33_SquatProgress ==
    ProgressCalled =>
        LET D == motion.cycleDuration
            v == motion.value
        IN  /\ FracLeq(Fraction(0, 1), v) /\ FracLeq(v, Fraction(1, 1))
            /\ FracEq(v, calculateSquatProgress(CycleTime, D))
            /\ \A earlier \in 0..CycleTime :
                 FracLeq(calculateSquatProgress(earlier, D), v)
            /\ 2 * CycleTime < D => FracEq(v, Fraction(CycleTime, D))
            /\ (50 * D <= 100 * CycleTime /\ 100 * CycleTime < 58 * D)
                 => FracEq(v, Fraction(1, 2))
            /\ 100 * CycleTime >= 58 * D
                 => FracEq(v, Fraction(42 * D + (100 * CycleTime - 58 * D), 84 * D))

\* a call in its second cycle, on the last millisecond of the pause window
\* of the default cycle: 6000 + 3479
C33_Witness ==
    /\ ProgressCalled /\ motion.cycleDuration = DefaultCycle
    /\ motion.timestamp > DefaultCycle
    /\ 100 * (CycleTime + 1) = 58 * DefaultCycle
    /\ FracEq(motion.value, Fraction(1, 2))

InterpolateCalled == motion.called /\ motion.fn = "interpolateKeyframes"

Between(v, a, b) == (a <= v /\ v <= b) \/ (b <= v /\ v <= a)

\* the angle targets of keyframe k lie between those of l and u
AnglesBetween(k, l, u) ==
    /\ Between(k.kneeAngle, l.kneeAngle, u.kneeAngle)
    /\ Between(k.hipAngle, l.hipAngle, u.hipAngle)
    /\ Between(k.ankleAngle, l.ankleAngle, u.ankleAngle)
    /\ Between(k.torsoAngle, l.torsoAngle, u.torsoAngle)

\* C34: interpolateKeyframes over SQUAT_KEYFRAMES returns the first keyframe
\* for p <= 0 and the last for p >= 1; for p in (0, 1) it picks a bracketing
\* pair with lower.progress <= p <= upper.progress and returns angles lying
\* between the pair's targets, and at p equal to a keyframe's progress
\* exactly that keyframe's knee, hip, ankle and torso targets.
C34_Interpolation ==
    InterpolateCalled =>
        LET p == motion.progress
            k == motion.value
            n == Len(SQUAT_KEYFRAMES)
        IN  /\ p <= 0 => k = SQUAT_KEYFRAMES[1]
            /\ p >= 100 => k = SQUAT_KEYFRAMES[n]
            /\ (0 < p /\ p < 100) =>
                 /\ k.progress = p
                 /\ \E i \in 1..(n - 1) :
                      /\ SQUAT_KEYFRAMES[i].progress <= p
                      /\ p <= SQUAT_KEYFRAMES[i + 1].progress
                      /\ AnglesBetween(k, SQUAT_KEYFRAMES[i], SQUAT_KEYFRAMES[i + 1])
            /\ \A i \in 1..n :
                 p = SQUAT_KEYFRAMES[i].progress =>
                     /\ AnglesBetween(k, SQUAT_KEYFRAMES[i], SQUAT_KEYFRAMES[i])
                     /\ k.progress = p

\* a quarter of the way from the first keyframe (knee 175) to the second
\* (knee 155): eased to a sixteenth of the way, 173.75, not the 170 of a
\* straight line
C34_Witness ==
    /\ InterpolateCalled /\ motion.progress = 5
    /\ motion.value.kneeAngle = 173750

\* called with progress below 0
InterpolateBelowZero ==
    InterpolateCalled /\ motion.progress < 0 /\ motion.value.progress = 0

\* the mean of the rep durations compared with a number of milliseconds
MeanDurationBelow(ms) == SumOf(sessionDurations) < ms * Len(sessionDurations)
MeanDurationAbove(ms) == SumOf(sessionDurations) > ms * Len(sessionDurations)

\* C35: for non-empty formScores calculateMovementQuality takes the tempo
\* from the mean rep duration: 'too_fast' iff the mean is below 3000 ms,
\* 'too_slow' iff it is above 7000 ms, otherwise 'optimal' (means of exactly
\* 3000 or 7000 are 'optimal'); with no rep durations the tempo is 'optimal'.
C35_TempoClassification ==
    (quality.called /\ Len(sessionScores) > 0) =>
        IF Len(sessionDurations) = 0 THEN quality.tempo = "optimal"
        ELSE /\ quality.tempo = "too_fast" <=> MeanDurationBelow(3000)
             /\ quality.tempo = "too_slow" <=> MeanDurationAbove(7000)
             /\ quality.tempo \in {"too_fast", "too_slow", "optimal"}

\* durations of 2000 and 4000 ms, mean exactly 3000: optimal
C35_Witness ==
    /\ quality.called /\ Len(sessionScores) > 0
    /\ sessionDurations = <<2000, 4000>>
    /\ quality.tempo = "optimal"

(***************************************************************************)
(* The voice queue fed with feedback of the four priorities, two of them   *)
(* of the same one (SpecQueue).  Feedback is added while the session runs  *)
(* (the clock stands at THROTTLE_DURATION); StopFeeding ends the session,  *)
(* after which nothing is added.  A generateSpeech promise resolves        *)
(* (SpeechEnds) or rejects (SpeechRejects): the catch block only logs, and *)
(* the finally block runs in both cases.                                   *)
(***************************************************************************)
QueueFeedbacks ==
    { [message |-> "Step back so I can see your full body", priority |-> "critical"],
      [message |-> "Let's begin! I'll guide you through each rep", priority |-> "important"],
      [message |-> "Chest up", priority |-> "important"],
      [message |-> "Drive up", priority |-> "normal"],
      [message |-> "Perfect", priority |-> "encouragement"] }

Feeding == now = THROTTLE_DURATION

AddWhileFeeding == Feeding /\ AddFeedbackFrom(QueueFeedbacks)

SpeechRejects ==
    \E i \in 1..Len(inFlight) :
        /\ becomes(speechSettled(voiceState, i, now))
        /\ UNCHANGED <<lastAdd, now, voiceFrame>>

StopFeeding ==
    /\ Feeding
    /\ now' = now + 1000
    /\ UNCHANGED <<voiceVars, voiceFrame>>

QueueNext ==
    \/ AddWhileFeeding \/ SpeechEnds \/ SpeechRejects \/ Clear \/ StopFeeding

SpecQueue == VoiceStart /\ [][QueueNext]_vars

\* the same session fed with one feedback of each of three priorities, in
\* which every generateSpeech call resolves or rejects in the end
AddBeforeDrain == Feeding /\ AddFeedbackFrom(Feedbacks)

DrainNext ==
    \/ AddBeforeDrain \/ SpeechEnds \/ SpeechRejects \/ Clear \/ StopFeeding

SpecDrain ==
    /\ VoiceStart /\ [][DrainNext]_vars
    /\ WF_vars(SpeechEnds \/ SpeechRejects)

PriorityOfMessage(message) ==
    (CHOOSE fb \in QueueFeedbacks : fb.message = message).priority

RankOfMessage(message) == priorityOrder(PriorityOfMessage(message))

\* a step in which processQueue took a message to speak: within addFeedback
\* (one more speech pending) or within the finally block of an earlier call
TookOnAdd == Len(inFlight') = Len(inFlight) + 1
TookOnSettle ==
    /\ Len(inFlight') = Len(inFlight)
    /\ Len(queue') = Len(queue) - 1
    /\ isSpeaking'
Took == TookOnAdd \/ TookOnSettle
Taken == inFlight'[Len(inFlight')]

\* the queue processQueue found: the waiting messages, with the feedback
\* just pushed when the call came from addFeedback
QueueFound ==
    IF TookOnAdd /\ lastAdd'.feedback.priority # "critical"
    THEN Append(queue, lastAdd'.feedback)
    ELSE queue

\* C36: every time processQueue takes a message to speak, no message left in
\* the queue has a strictly higher priority (critical > important > normal >
\* encouragement), and among the messages of an equal non-critical priority
\* the one added earliest is taken first.
C36_PriorityOrder ==
    [][ Took =>
          /\ \A i \in 1..Len(queue') :
               RankOfMessage(Taken) <= priorityOrder(queue'[i].priority)
          /\ PriorityOfMessage(Taken) # "critical" =>
               \E k \in 1..Len(QueueFound) :
                   /\ QueueFound[k].message = Taken
                   /\ \A j \in 1..(k - 1) :
                        QueueFound[j].priority # QueueFound[k].priority ]_vars

\* 'Chest up' was the last feedback added and had to wait behind
\* 'Drive up', of a lower priority; it has been taken and 'Drive up' waits
C36_Witness ==
    /\ lastAdd.called /\ lastAdd.feedback.message = "Chest up"
    /\ ~lastAdd.throttled /\ lastAdd.started = NoFeedback
    /\ Len(inFlight) > 0
    /\ inFlight[Len(inFlight)] = "Chest up"
    /\ queue = <<[message |-> "Drive up", priority |-> "normal"]>>

\* C37: mutual exclusion of speech: in every interleaving of addFeedback,
\* clear() and generateSpeech completions at most one processQueue call is
\* between setting isSpeaking and its finally block (two messages are never
\* being spoken at once), and isSpeaking is true exactly while a message is
\* in flight.
C37_OneSpeechAtATime ==
    /\ Len(inFlight) <= 1
    /\ isSpeaking <=> inFlight # <<>>

\* two calls of processQueue await their speech, and isSpeaking is false
C37_Witness == Len(inFlight) = 2 /\ ~isSpeaking

\* what holds of C37: a message waits only while isSpeaking is set, and
\* isSpeaking is set only while a speech is pending
SpeakingWhileWaiting ==
    /\ queue # <<>> => isSpeaking
    /\ isSpeaking => inFlight # <<>>

Fed == ~Feeding
Drained == queue = <<>> /\ inFlight = <<>> /\ ~isSpeaking

\* C38: once no further feedback is added, and every generateSpeech call
\* resolves or rejects in the end, every message accepted into the queue is
\* eventually taken for speaking unless clear() removed it, the queue
\* becomes empty and isSpeaking returns to false; a rejected generateSpeech
\* call does not stop the messages behind it.
C38_QueueDrain ==
    /\ Fed ~> Drained
    /\ [][ Fed =>
            /\ Drained => Drained'
            /\ Len(queue') <= Len(queue)
            /\ Len(queue') < Len(queue) => (TookOnSettle \/ queue' = <<>>) ]_vars

\* the session is over and everything that was said is said: the queue is
\* empty, no speech is pending and every message has been spoken
C38_Witness ==
    /\ Fed /\ Drained
    /\ Cardinality(DOMAIN lastSpokenMessages) = Cardinality(Feedbacks)

DescentKept == highestHipHeight - lowestHipHeight >= 2 * MIN_DESCENT_DISTANCE

\* C39: whenever the phase is Bottom or Ascending, highestHipHeight -
\* lowestHipHeight >= MIN_DESCENT_DISTANCE; so every Ascending -> Standing
\* transition credits a rep, and the branch that returns to Standing without
\* incrementing repCount is never taken.
C39_DescentKeptThroughBottom ==
    /\ [](phase \in {"bottom", "ascending"} => DescentKept)
    /\ [][ (DetectPhaseStep /\ phase = "ascending" /\ phase' = "standing")
             => repCount' = repCount + 1 ]_vars

\* a rep was credited on the way from Bottom through Ascending back to
\* Standing
C39_Witness ==
    /\ last.op = "detectPhase" /\ ret.repCompleted
    /\ Len(phaseTrace) >= 4
    /\ phaseTrace[Len(phaseTrace)] = "standing"
    /\ phaseTrace[Len(phaseTrace) - 1] = "ascending"
    /\ phaseTrace[Len(phaseTrace) - 2] = "bottom"

====
